---- MODULE Spec2Model ----
(***************************************************************************)
(* Field-level generation-strategy engine of rand_derive2 (src/gen.rs).    *)
(*                                                                         *)
(* Text (a Rust String / &str / Ident) is a sequence of one-character      *)
(* strings, so that find, rfind, slicing, to_lowercase and format_ident!   *)
(* are computed character by character as the code computes them.          *)
(* A TokenStream produced by quote! is a record naming the emitted         *)
(* expression and its spliced parts.                                       *)
(***************************************************************************)
EXTENDS Integers, Sequences, FiniteSets, TLC

VARIABLES
    data,           \* input.data: "Struct", "Enum" or "Union"
    printer,        \* the printer behind TokenStream::to_string() in this build
    fields,         \* the fields of the owning type, in declaration order
    values,         \* the fragments emitted so far, one per processed field
    extracted,      \* (full_type, to_string) of each processed field
    ts_values,      \* ts_value (gen.rs line 96) of each processed field
    trait_methods,  \* TraitMethods: method name -> required signature
    status          \* "input", "running", or the message of the panic that
                    \* ended the macro

vars == <<data, printer, fields, values, extracted, ts_values, trait_methods, status>>

----------------------------------------------------------------------------
(* Text primitives of the Rust standard library used by gen.rs *)

\* str::find(pat): 0-based index of the first match, NoPos for None
NoPos == 0 - 1

\* A character outside ASCII is written as its code point: "U+00C9" is the
\* one character LATIN CAPITAL LETTER E WITH ACUTE.  The characters of the
\* model are the ASCII characters of identifiers and types, the Unicode
\* white space, the identifier characters of Latin-1, Latin Extended-A, the
\* combining diacritical marks, Greek, basic Cyrillic and U+540D, and every
\* character that decomposes canonically into these.

\* the one-character lowercase mappings <<character, lowercase>>
Lowercase_Mapping ==
    { <<"A", "a">>, <<"B", "b">>, <<"C", "c">>, <<"D", "d">>,
      <<"E", "e">>, <<"F", "f">>, <<"G", "g">>, <<"H", "h">>,
      <<"I", "i">>, <<"J", "j">>, <<"K", "k">>, <<"L", "l">>,
      <<"M", "m">>, <<"N", "n">>, <<"O", "o">>, <<"P", "p">>,
      <<"Q", "q">>, <<"R", "r">>, <<"S", "s">>, <<"T", "t">>,
      <<"U", "u">>, <<"V", "v">>, <<"W", "w">>, <<"X", "x">>,
      <<"Y", "y">>, <<"Z", "z">>, <<"U+00C0", "U+00E0">>, <<"U+00C1", "U+00E1">>,
      <<"U+00C2", "U+00E2">>, <<"U+00C3", "U+00E3">>, <<"U+00C4", "U+00E4">>, <<"U+00C5", "U+00E5">>,
      <<"U+00C6", "U+00E6">>, <<"U+00C7", "U+00E7">>, <<"U+00C8", "U+00E8">>, <<"U+00C9", "U+00E9">>,
      <<"U+00CA", "U+00EA">>, <<"U+00CB", "U+00EB">>, <<"U+00CC", "U+00EC">>, <<"U+00CD", "U+00ED">>,
      <<"U+00CE", "U+00EE">>, <<"U+00CF", "U+00EF">>, <<"U+00D0", "U+00F0">>, <<"U+00D1", "U+00F1">>,
      <<"U+00D2", "U+00F2">>, <<"U+00D3", "U+00F3">>, <<"U+00D4", "U+00F4">>, <<"U+00D5", "U+00F5">>,
      <<"U+00D6", "U+00F6">>, <<"U+00D8", "U+00F8">>, <<"U+00D9", "U+00F9">>, <<"U+00DA", "U+00FA">>,
      <<"U+00DB", "U+00FB">>, <<"U+00DC", "U+00FC">>, <<"U+00DD", "U+00FD">>, <<"U+00DE", "U+00FE">>,
      <<"U+0100", "U+0101">>, <<"U+0102", "U+0103">>, <<"U+0104", "U+0105">>, <<"U+0106", "U+0107">>,
      <<"U+0108", "U+0109">>, <<"U+010A", "U+010B">>, <<"U+010C", "U+010D">>, <<"U+010E", "U+010F">>,
      <<"U+0110", "U+0111">>, <<"U+0112", "U+0113">>, <<"U+0114", "U+0115">>, <<"U+0116", "U+0117">>,
      <<"U+0118", "U+0119">>, <<"U+011A", "U+011B">>, <<"U+011C", "U+011D">>, <<"U+011E", "U+011F">>,
      <<"U+0120", "U+0121">>, <<"U+0122", "U+0123">>, <<"U+0124", "U+0125">>, <<"U+0126", "U+0127">>,
      <<"U+0128", "U+0129">>, <<"U+012A", "U+012B">>, <<"U+012C", "U+012D">>, <<"U+012E", "U+012F">>,
      <<"U+0132", "U+0133">>, <<"U+0134", "U+0135">>, <<"U+0136", "U+0137">>, <<"U+0139", "U+013A">>,
      <<"U+013B", "U+013C">>, <<"U+013D", "U+013E">>, <<"U+013F", "U+0140">>, <<"U+0141", "U+0142">>,
      <<"U+0143", "U+0144">>, <<"U+0145", "U+0146">>, <<"U+0147", "U+0148">>, <<"U+014A", "U+014B">>,
      <<"U+014C", "U+014D">>, <<"U+014E", "U+014F">>, <<"U+0150", "U+0151">>, <<"U+0152", "U+0153">>,
      <<"U+0154", "U+0155">>, <<"U+0156", "U+0157">>, <<"U+0158", "U+0159">>, <<"U+015A", "U+015B">>,
      <<"U+015C", "U+015D">>, <<"U+015E", "U+015F">>, <<"U+0160", "U+0161">>, <<"U+0162", "U+0163">>,
      <<"U+0164", "U+0165">>, <<"U+0166", "U+0167">>, <<"U+0168", "U+0169">>, <<"U+016A", "U+016B">>,
      <<"U+016C", "U+016D">>, <<"U+016E", "U+016F">>, <<"U+0170", "U+0171">>, <<"U+0172", "U+0173">>,
      <<"U+0174", "U+0175">>, <<"U+0176", "U+0177">>, <<"U+0178", "U+00FF">>, <<"U+0179", "U+017A">>,
      <<"U+017B", "U+017C">>, <<"U+017D", "U+017E">>, <<"U+01A0", "U+01A1">>, <<"U+01AF", "U+01B0">>,
      <<"U+01CD", "U+01CE">>, <<"U+01CF", "U+01D0">>, <<"U+01D1", "U+01D2">>, <<"U+01D3", "U+01D4">>,
      <<"U+01D5", "U+01D6">>, <<"U+01D7", "U+01D8">>, <<"U+01D9", "U+01DA">>, <<"U+01DB", "U+01DC">>,
      <<"U+01DE", "U+01DF">>, <<"U+01E0", "U+01E1">>, <<"U+01E2", "U+01E3">>, <<"U+01E6", "U+01E7">>,
      <<"U+01E8", "U+01E9">>, <<"U+01EA", "U+01EB">>, <<"U+01EC", "U+01ED">>, <<"U+01F4", "U+01F5">>,
      <<"U+01F8", "U+01F9">>, <<"U+01FA", "U+01FB">>, <<"U+01FC", "U+01FD">>, <<"U+01FE", "U+01FF">>,
      <<"U+0200", "U+0201">>, <<"U+0202", "U+0203">>, <<"U+0204", "U+0205">>, <<"U+0206", "U+0207">>,
      <<"U+0208", "U+0209">>, <<"U+020A", "U+020B">>, <<"U+020C", "U+020D">>, <<"U+020E", "U+020F">>,
      <<"U+0210", "U+0211">>, <<"U+0212", "U+0213">>, <<"U+0214", "U+0215">>, <<"U+0216", "U+0217">>,
      <<"U+0218", "U+0219">>, <<"U+021A", "U+021B">>, <<"U+021E", "U+021F">>, <<"U+0226", "U+0227">>,
      <<"U+0228", "U+0229">>, <<"U+022A", "U+022B">>, <<"U+022C", "U+022D">>, <<"U+022E", "U+022F">>,
      <<"U+0230", "U+0231">>, <<"U+0232", "U+0233">>, <<"U+0370", "U+0371">>, <<"U+0372", "U+0373">>,
      <<"U+0376", "U+0377">>, <<"U+037F", "U+03F3">>, <<"U+0386", "U+03AC">>, <<"U+0388", "U+03AD">>,
      <<"U+0389", "U+03AE">>, <<"U+038A", "U+03AF">>, <<"U+038C", "U+03CC">>, <<"U+038E", "U+03CD">>,
      <<"U+038F", "U+03CE">>, <<"U+0391", "U+03B1">>, <<"U+0392", "U+03B2">>, <<"U+0393", "U+03B3">>,
      <<"U+0394", "U+03B4">>, <<"U+0395", "U+03B5">>, <<"U+0396", "U+03B6">>, <<"U+0397", "U+03B7">>,
      <<"U+0398", "U+03B8">>, <<"U+0399", "U+03B9">>, <<"U+039A", "U+03BA">>, <<"U+039B", "U+03BB">>,
      <<"U+039C", "U+03BC">>, <<"U+039D", "U+03BD">>, <<"U+039E", "U+03BE">>, <<"U+039F", "U+03BF">>,
      <<"U+03A0", "U+03C0">>, <<"U+03A1", "U+03C1">>, <<"U+03A3", "U+03C3">>, <<"U+03A4", "U+03C4">>,
      <<"U+03A5", "U+03C5">>, <<"U+03A6", "U+03C6">>, <<"U+03A7", "U+03C7">>, <<"U+03A8", "U+03C8">>,
      <<"U+03A9", "U+03C9">>, <<"U+03AA", "U+03CA">>, <<"U+03AB", "U+03CB">>, <<"U+03CF", "U+03D7">>,
      <<"U+03D8", "U+03D9">>, <<"U+03DA", "U+03DB">>, <<"U+03DC", "U+03DD">>, <<"U+03DE", "U+03DF">>,
      <<"U+03E0", "U+03E1">>, <<"U+03E2", "U+03E3">>, <<"U+03E4", "U+03E5">>, <<"U+03E6", "U+03E7">>,
      <<"U+03E8", "U+03E9">>, <<"U+03EA", "U+03EB">>, <<"U+03EC", "U+03ED">>, <<"U+03EE", "U+03EF">>,
      <<"U+03F4", "U+03B8">>, <<"U+03F7", "U+03F8">>, <<"U+03F9", "U+03F2">>, <<"U+03FA", "U+03FB">>,
      <<"U+03FD", "U+037B">>, <<"U+03FE", "U+037C">>, <<"U+03FF", "U+037D">>, <<"U+0400", "U+0450">>,
      <<"U+0401", "U+0451">>, <<"U+0402", "U+0452">>, <<"U+0403", "U+0453">>, <<"U+0404", "U+0454">>,
      <<"U+0405", "U+0455">>, <<"U+0406", "U+0456">>, <<"U+0407", "U+0457">>, <<"U+0408", "U+0458">>,
      <<"U+0409", "U+0459">>, <<"U+040A", "U+045A">>, <<"U+040B", "U+045B">>, <<"U+040C", "U+045C">>,
      <<"U+040D", "U+045D">>, <<"U+040E", "U+045E">>, <<"U+040F", "U+045F">>, <<"U+0410", "U+0430">>,
      <<"U+0411", "U+0431">>, <<"U+0412", "U+0432">>, <<"U+0413", "U+0433">>, <<"U+0414", "U+0434">>,
      <<"U+0415", "U+0435">>, <<"U+0416", "U+0436">>, <<"U+0417", "U+0437">>, <<"U+0418", "U+0438">>,
      <<"U+0419", "U+0439">>, <<"U+041A", "U+043A">>, <<"U+041B", "U+043B">>, <<"U+041C", "U+043C">>,
      <<"U+041D", "U+043D">>, <<"U+041E", "U+043E">>, <<"U+041F", "U+043F">>, <<"U+0420", "U+0440">>,
      <<"U+0421", "U+0441">>, <<"U+0422", "U+0442">>, <<"U+0423", "U+0443">>, <<"U+0424", "U+0444">>,
      <<"U+0425", "U+0445">>, <<"U+0426", "U+0446">>, <<"U+0427", "U+0447">>, <<"U+0428", "U+0448">>,
      <<"U+0429", "U+0449">>, <<"U+042A", "U+044A">>, <<"U+042B", "U+044B">>, <<"U+042C", "U+044C">>,
      <<"U+042D", "U+044D">>, <<"U+042E", "U+044E">>, <<"U+042F", "U+044F">>, <<"U+04C1", "U+04C2">>,
      <<"U+04D0", "U+04D1">>, <<"U+04D2", "U+04D3">>, <<"U+04D6", "U+04D7">>, <<"U+04DC", "U+04DD">>,
      <<"U+04DE", "U+04DF">>, <<"U+04E2", "U+04E3">>, <<"U+04E4", "U+04E5">>, <<"U+04E6", "U+04E7">>,
      <<"U+04EC", "U+04ED">>, <<"U+04EE", "U+04EF">>, <<"U+04F0", "U+04F1">>, <<"U+04F2", "U+04F3">>,
      <<"U+04F4", "U+04F5">>, <<"U+04F8", "U+04F9">>, <<"U+1E00", "U+1E01">>, <<"U+1E02", "U+1E03">>,
      <<"U+1E04", "U+1E05">>, <<"U+1E06", "U+1E07">>, <<"U+1E08", "U+1E09">>, <<"U+1E0A", "U+1E0B">>,
      <<"U+1E0C", "U+1E0D">>, <<"U+1E0E", "U+1E0F">>, <<"U+1E10", "U+1E11">>, <<"U+1E12", "U+1E13">>,
      <<"U+1E14", "U+1E15">>, <<"U+1E16", "U+1E17">>, <<"U+1E18", "U+1E19">>, <<"U+1E1A", "U+1E1B">>,
      <<"U+1E1C", "U+1E1D">>, <<"U+1E1E", "U+1E1F">>, <<"U+1E20", "U+1E21">>, <<"U+1E22", "U+1E23">>,
      <<"U+1E24", "U+1E25">>, <<"U+1E26", "U+1E27">>, <<"U+1E28", "U+1E29">>, <<"U+1E2A", "U+1E2B">>,
      <<"U+1E2C", "U+1E2D">>, <<"U+1E2E", "U+1E2F">>, <<"U+1E30", "U+1E31">>, <<"U+1E32", "U+1E33">>,
      <<"U+1E34", "U+1E35">>, <<"U+1E36", "U+1E37">>, <<"U+1E38", "U+1E39">>, <<"U+1E3A", "U+1E3B">>,
      <<"U+1E3C", "U+1E3D">>, <<"U+1E3E", "U+1E3F">>, <<"U+1E40", "U+1E41">>, <<"U+1E42", "U+1E43">>,
      <<"U+1E44", "U+1E45">>, <<"U+1E46", "U+1E47">>, <<"U+1E48", "U+1E49">>, <<"U+1E4A", "U+1E4B">>,
      <<"U+1E4C", "U+1E4D">>, <<"U+1E4E", "U+1E4F">>, <<"U+1E50", "U+1E51">>, <<"U+1E52", "U+1E53">>,
      <<"U+1E54", "U+1E55">>, <<"U+1E56", "U+1E57">>, <<"U+1E58", "U+1E59">>, <<"U+1E5A", "U+1E5B">>,
      <<"U+1E5C", "U+1E5D">>, <<"U+1E5E", "U+1E5F">>, <<"U+1E60", "U+1E61">>, <<"U+1E62", "U+1E63">>,
      <<"U+1E64", "U+1E65">>, <<"U+1E66", "U+1E67">>, <<"U+1E68", "U+1E69">>, <<"U+1E6A", "U+1E6B">>,
      <<"U+1E6C", "U+1E6D">>, <<"U+1E6E", "U+1E6F">>, <<"U+1E70", "U+1E71">>, <<"U+1E72", "U+1E73">>,
      <<"U+1E74", "U+1E75">>, <<"U+1E76", "U+1E77">>, <<"U+1E78", "U+1E79">>, <<"U+1E7A", "U+1E7B">>,
      <<"U+1E7C", "U+1E7D">>, <<"U+1E7E", "U+1E7F">>, <<"U+1E80", "U+1E81">>, <<"U+1E82", "U+1E83">>,
      <<"U+1E84", "U+1E85">>, <<"U+1E86", "U+1E87">>, <<"U+1E88", "U+1E89">>, <<"U+1E8A", "U+1E8B">>,
      <<"U+1E8C", "U+1E8D">>, <<"U+1E8E", "U+1E8F">>, <<"U+1E90", "U+1E91">>, <<"U+1E92", "U+1E93">>,
      <<"U+1E94", "U+1E95">>, <<"U+1EA0", "U+1EA1">>, <<"U+1EA2", "U+1EA3">>, <<"U+1EA4", "U+1EA5">>,
      <<"U+1EA6", "U+1EA7">>, <<"U+1EA8", "U+1EA9">>, <<"U+1EAA", "U+1EAB">>, <<"U+1EAC", "U+1EAD">>,
      <<"U+1EAE", "U+1EAF">>, <<"U+1EB0", "U+1EB1">>, <<"U+1EB2", "U+1EB3">>, <<"U+1EB4", "U+1EB5">>,
      <<"U+1EB6", "U+1EB7">>, <<"U+1EB8", "U+1EB9">>, <<"U+1EBA", "U+1EBB">>, <<"U+1EBC", "U+1EBD">>,
      <<"U+1EBE", "U+1EBF">>, <<"U+1EC0", "U+1EC1">>, <<"U+1EC2", "U+1EC3">>, <<"U+1EC4", "U+1EC5">>,
      <<"U+1EC6", "U+1EC7">>, <<"U+1EC8", "U+1EC9">>, <<"U+1ECA", "U+1ECB">>, <<"U+1ECC", "U+1ECD">>,
      <<"U+1ECE", "U+1ECF">>, <<"U+1ED0", "U+1ED1">>, <<"U+1ED2", "U+1ED3">>, <<"U+1ED4", "U+1ED5">>,
      <<"U+1ED6", "U+1ED7">>, <<"U+1ED8", "U+1ED9">>, <<"U+1EDA", "U+1EDB">>, <<"U+1EDC", "U+1EDD">>,
      <<"U+1EDE", "U+1EDF">>, <<"U+1EE0", "U+1EE1">>, <<"U+1EE2", "U+1EE3">>, <<"U+1EE4", "U+1EE5">>,
      <<"U+1EE6", "U+1EE7">>, <<"U+1EE8", "U+1EE9">>, <<"U+1EEA", "U+1EEB">>, <<"U+1EEC", "U+1EED">>,
      <<"U+1EEE", "U+1EEF">>, <<"U+1EF0", "U+1EF1">>, <<"U+1EF2", "U+1EF3">>, <<"U+1EF4", "U+1EF5">>,
      <<"U+1EF6", "U+1EF7">>, <<"U+1EF8", "U+1EF9">>, <<"U+1F08", "U+1F00">>, <<"U+1F09", "U+1F01">>,
      <<"U+1F0A", "U+1F02">>, <<"U+1F0B", "U+1F03">>, <<"U+1F0C", "U+1F04">>, <<"U+1F0D", "U+1F05">>,
      <<"U+1F0E", "U+1F06">>, <<"U+1F0F", "U+1F07">>, <<"U+1F18", "U+1F10">>, <<"U+1F19", "U+1F11">>,
      <<"U+1F1A", "U+1F12">>, <<"U+1F1B", "U+1F13">>, <<"U+1F1C", "U+1F14">>, <<"U+1F1D", "U+1F15">>,
      <<"U+1F28", "U+1F20">>, <<"U+1F29", "U+1F21">>, <<"U+1F2A", "U+1F22">>, <<"U+1F2B", "U+1F23">>,
      <<"U+1F2C", "U+1F24">>, <<"U+1F2D", "U+1F25">>, <<"U+1F2E", "U+1F26">>, <<"U+1F2F", "U+1F27">>,
      <<"U+1F38", "U+1F30">>, <<"U+1F39", "U+1F31">>, <<"U+1F3A", "U+1F32">>, <<"U+1F3B", "U+1F33">>,
      <<"U+1F3C", "U+1F34">>, <<"U+1F3D", "U+1F35">>, <<"U+1F3E", "U+1F36">>, <<"U+1F3F", "U+1F37">>,
      <<"U+1F48", "U+1F40">>, <<"U+1F49", "U+1F41">>, <<"U+1F4A", "U+1F42">>, <<"U+1F4B", "U+1F43">>,
      <<"U+1F4C", "U+1F44">>, <<"U+1F4D", "U+1F45">>, <<"U+1F59", "U+1F51">>, <<"U+1F5B", "U+1F53">>,
      <<"U+1F5D", "U+1F55">>, <<"U+1F5F", "U+1F57">>, <<"U+1F68", "U+1F60">>, <<"U+1F69", "U+1F61">>,
      <<"U+1F6A", "U+1F62">>, <<"U+1F6B", "U+1F63">>, <<"U+1F6C", "U+1F64">>, <<"U+1F6D", "U+1F65">>,
      <<"U+1F6E", "U+1F66">>, <<"U+1F6F", "U+1F67">>, <<"U+1F88", "U+1F80">>, <<"U+1F89", "U+1F81">>,
      <<"U+1F8A", "U+1F82">>, <<"U+1F8B", "U+1F83">>, <<"U+1F8C", "U+1F84">>, <<"U+1F8D", "U+1F85">>,
      <<"U+1F8E", "U+1F86">>, <<"U+1F8F", "U+1F87">>, <<"U+1F98", "U+1F90">>, <<"U+1F99", "U+1F91">>,
      <<"U+1F9A", "U+1F92">>, <<"U+1F9B", "U+1F93">>, <<"U+1F9C", "U+1F94">>, <<"U+1F9D", "U+1F95">>,
      <<"U+1F9E", "U+1F96">>, <<"U+1F9F", "U+1F97">>, <<"U+1FA8", "U+1FA0">>, <<"U+1FA9", "U+1FA1">>,
      <<"U+1FAA", "U+1FA2">>, <<"U+1FAB", "U+1FA3">>, <<"U+1FAC", "U+1FA4">>, <<"U+1FAD", "U+1FA5">>,
      <<"U+1FAE", "U+1FA6">>, <<"U+1FAF", "U+1FA7">>, <<"U+1FB8", "U+1FB0">>, <<"U+1FB9", "U+1FB1">>,
      <<"U+1FBA", "U+1F70">>, <<"U+1FBB", "U+1F71">>, <<"U+1FBC", "U+1FB3">>, <<"U+1FC8", "U+1F72">>,
      <<"U+1FC9", "U+1F73">>, <<"U+1FCA", "U+1F74">>, <<"U+1FCB", "U+1F75">>, <<"U+1FCC", "U+1FC3">>,
      <<"U+1FD8", "U+1FD0">>, <<"U+1FD9", "U+1FD1">>, <<"U+1FDA", "U+1F76">>, <<"U+1FDB", "U+1F77">>,
      <<"U+1FE8", "U+1FE0">>, <<"U+1FE9", "U+1FE1">>, <<"U+1FEA", "U+1F7A">>, <<"U+1FEB", "U+1F7B">>,
      <<"U+1FEC", "U+1FE5">>, <<"U+1FF8", "U+1F78">>, <<"U+1FF9", "U+1F79">>, <<"U+1FFA", "U+1F7C">>,
      <<"U+1FFB", "U+1F7D">>, <<"U+1FFC", "U+1FF3">>, <<"U+2126", "U+03C9">>, <<"U+212A", "k">>,
      <<"U+212B", "U+00E5">> }

\* XID_Start outside ASCII, on two and on three bytes of UTF-8
Letters2 ==
    { "U+00AA", "U+00B5", "U+00BA", "U+00C0", "U+00C1", "U+00C2", "U+00C3", "U+00C4",
      "U+00C5", "U+00C6", "U+00C7", "U+00C8", "U+00C9", "U+00CA", "U+00CB", "U+00CC",
      "U+00CD", "U+00CE", "U+00CF", "U+00D0", "U+00D1", "U+00D2", "U+00D3", "U+00D4",
      "U+00D5", "U+00D6", "U+00D8", "U+00D9", "U+00DA", "U+00DB", "U+00DC", "U+00DD",
      "U+00DE", "U+00DF", "U+00E0", "U+00E1", "U+00E2", "U+00E3", "U+00E4", "U+00E5",
      "U+00E6", "U+00E7", "U+00E8", "U+00E9", "U+00EA", "U+00EB", "U+00EC", "U+00ED",
      "U+00EE", "U+00EF", "U+00F0", "U+00F1", "U+00F2", "U+00F3", "U+00F4", "U+00F5",
      "U+00F6", "U+00F8", "U+00F9", "U+00FA", "U+00FB", "U+00FC", "U+00FD", "U+00FE",
      "U+00FF", "U+0100", "U+0101", "U+0102", "U+0103", "U+0104", "U+0105", "U+0106",
      "U+0107", "U+0108", "U+0109", "U+010A", "U+010B", "U+010C", "U+010D", "U+010E",
      "U+010F", "U+0110", "U+0111", "U+0112", "U+0113", "U+0114", "U+0115", "U+0116",
      "U+0117", "U+0118", "U+0119", "U+011A", "U+011B", "U+011C", "U+011D", "U+011E",
      "U+011F", "U+0120", "U+0121", "U+0122", "U+0123", "U+0124", "U+0125", "U+0126",
      "U+0127", "U+0128", "U+0129", "U+012A", "U+012B", "U+012C", "U+012D", "U+012E",
      "U+012F", "U+0130", "U+0131", "U+0132", "U+0133", "U+0134", "U+0135", "U+0136",
      "U+0137", "U+0138", "U+0139", "U+013A", "U+013B", "U+013C", "U+013D", "U+013E",
      "U+013F", "U+0140", "U+0141", "U+0142", "U+0143", "U+0144", "U+0145", "U+0146",
      "U+0147", "U+0148", "U+0149", "U+014A", "U+014B", "U+014C", "U+014D", "U+014E",
      "U+014F", "U+0150", "U+0151", "U+0152", "U+0153", "U+0154", "U+0155", "U+0156",
      "U+0157", "U+0158", "U+0159", "U+015A", "U+015B", "U+015C", "U+015D", "U+015E",
      "U+015F", "U+0160", "U+0161", "U+0162", "U+0163", "U+0164", "U+0165", "U+0166",
      "U+0167", "U+0168", "U+0169", "U+016A", "U+016B", "U+016C", "U+016D", "U+016E",
      "U+016F", "U+0170", "U+0171", "U+0172", "U+0173", "U+0174", "U+0175", "U+0176",
      "U+0177", "U+0178", "U+0179", "U+017A", "U+017B", "U+017C", "U+017D", "U+017E",
      "U+017F", "U+01A0", "U+01A1", "U+01AF", "U+01B0", "U+01CD", "U+01CE", "U+01CF",
      "U+01D0", "U+01D1", "U+01D2", "U+01D3", "U+01D4", "U+01D5", "U+01D6", "U+01D7",
      "U+01D8", "U+01D9", "U+01DA", "U+01DB", "U+01DC", "U+01DE", "U+01DF", "U+01E0",
      "U+01E1", "U+01E2", "U+01E3", "U+01E6", "U+01E7", "U+01E8", "U+01E9", "U+01EA",
      "U+01EB", "U+01EC", "U+01ED", "U+01F0", "U+01F4", "U+01F5", "U+01F8", "U+01F9",
      "U+01FA", "U+01FB", "U+01FC", "U+01FD", "U+01FE", "U+01FF", "U+0200", "U+0201",
      "U+0202", "U+0203", "U+0204", "U+0205", "U+0206", "U+0207", "U+0208", "U+0209",
      "U+020A", "U+020B", "U+020C", "U+020D", "U+020E", "U+020F", "U+0210", "U+0211",
      "U+0212", "U+0213", "U+0214", "U+0215", "U+0216", "U+0217", "U+0218", "U+0219",
      "U+021A", "U+021B", "U+021E", "U+021F", "U+0226", "U+0227", "U+0228", "U+0229",
      "U+022A", "U+022B", "U+022C", "U+022D", "U+022E", "U+022F", "U+0230", "U+0231",
      "U+0232", "U+0233", "U+02B9", "U+0370", "U+0371", "U+0372", "U+0373", "U+0374",
      "U+0376", "U+0377", "U+037B", "U+037C", "U+037D", "U+037F", "U+0386", "U+0388",
      "U+0389", "U+038A", "U+038C", "U+038E", "U+038F", "U+0390", "U+0391", "U+0392",
      "U+0393", "U+0394", "U+0395", "U+0396", "U+0397", "U+0398", "U+0399", "U+039A",
      "U+039B", "U+039C", "U+039D", "U+039E", "U+039F", "U+03A0", "U+03A1", "U+03A3",
      "U+03A4", "U+03A5", "U+03A6", "U+03A7", "U+03A8", "U+03A9", "U+03AA", "U+03AB",
      "U+03AC", "U+03AD", "U+03AE", "U+03AF", "U+03B0", "U+03B1", "U+03B2", "U+03B3",
      "U+03B4", "U+03B5", "U+03B6", "U+03B7", "U+03B8", "U+03B9", "U+03BA", "U+03BB",
      "U+03BC", "U+03BD", "U+03BE", "U+03BF", "U+03C0", "U+03C1", "U+03C2", "U+03C3",
      "U+03C4", "U+03C5", "U+03C6", "U+03C7", "U+03C8", "U+03C9", "U+03CA", "U+03CB",
      "U+03CC", "U+03CD", "U+03CE", "U+03CF", "U+03D0", "U+03D1", "U+03D2", "U+03D3",
      "U+03D4", "U+03D5", "U+03D6", "U+03D7", "U+03D8", "U+03D9", "U+03DA", "U+03DB",
      "U+03DC", "U+03DD", "U+03DE", "U+03DF", "U+03E0", "U+03E1", "U+03E2", "U+03E3",
      "U+03E4", "U+03E5", "U+03E6", "U+03E7", "U+03E8", "U+03E9", "U+03EA", "U+03EB",
      "U+03EC", "U+03ED", "U+03EE", "U+03EF", "U+03F0", "U+03F1", "U+03F2", "U+03F3",
      "U+03F4", "U+03F5", "U+03F7", "U+03F8", "U+03F9", "U+03FA", "U+03FB", "U+03FC",
      "U+03FD", "U+03FE", "U+03FF", "U+0400", "U+0401", "U+0402", "U+0403", "U+0404",
      "U+0405", "U+0406", "U+0407", "U+0408", "U+0409", "U+040A", "U+040B", "U+040C",
      "U+040D", "U+040E", "U+040F", "U+0410", "U+0411", "U+0412", "U+0413", "U+0414",
      "U+0415", "U+0416", "U+0417", "U+0418", "U+0419", "U+041A", "U+041B", "U+041C",
      "U+041D", "U+041E", "U+041F", "U+0420", "U+0421", "U+0422", "U+0423", "U+0424",
      "U+0425", "U+0426", "U+0427", "U+0428", "U+0429", "U+042A", "U+042B", "U+042C",
      "U+042D", "U+042E", "U+042F", "U+0430", "U+0431", "U+0432", "U+0433", "U+0434",
      "U+0435", "U+0436", "U+0437", "U+0438", "U+0439", "U+043A", "U+043B", "U+043C",
      "U+043D", "U+043E", "U+043F", "U+0440", "U+0441", "U+0442", "U+0443", "U+0444",
      "U+0445", "U+0446", "U+0447", "U+0448", "U+0449", "U+044A", "U+044B", "U+044C",
      "U+044D", "U+044E", "U+044F", "U+0450", "U+0451", "U+0452", "U+0453", "U+0454",
      "U+0455", "U+0456", "U+0457", "U+0458", "U+0459", "U+045A", "U+045B", "U+045C",
      "U+045D", "U+045E", "U+045F", "U+04C1", "U+04C2", "U+04D0", "U+04D1", "U+04D2",
      "U+04D3", "U+04D6", "U+04D7", "U+04DC", "U+04DD", "U+04DE", "U+04DF", "U+04E2",
      "U+04E3", "U+04E4", "U+04E5", "U+04E6", "U+04E7", "U+04EC", "U+04ED", "U+04EE",
      "U+04EF", "U+04F0", "U+04F1", "U+04F2", "U+04F3", "U+04F4", "U+04F5", "U+04F8",
      "U+04F9" }

Letters3 ==
    { "U+1E00", "U+1E01", "U+1E02", "U+1E03", "U+1E04", "U+1E05", "U+1E06", "U+1E07",
      "U+1E08", "U+1E09", "U+1E0A", "U+1E0B", "U+1E0C", "U+1E0D", "U+1E0E", "U+1E0F",
      "U+1E10", "U+1E11", "U+1E12", "U+1E13", "U+1E14", "U+1E15", "U+1E16", "U+1E17",
      "U+1E18", "U+1E19", "U+1E1A", "U+1E1B", "U+1E1C", "U+1E1D", "U+1E1E", "U+1E1F",
      "U+1E20", "U+1E21", "U+1E22", "U+1E23", "U+1E24", "U+1E25", "U+1E26", "U+1E27",
      "U+1E28", "U+1E29", "U+1E2A", "U+1E2B", "U+1E2C", "U+1E2D", "U+1E2E", "U+1E2F",
      "U+1E30", "U+1E31", "U+1E32", "U+1E33", "U+1E34", "U+1E35", "U+1E36", "U+1E37",
      "U+1E38", "U+1E39", "U+1E3A", "U+1E3B", "U+1E3C", "U+1E3D", "U+1E3E", "U+1E3F",
      "U+1E40", "U+1E41", "U+1E42", "U+1E43", "U+1E44", "U+1E45", "U+1E46", "U+1E47",
      "U+1E48", "U+1E49", "U+1E4A", "U+1E4B", "U+1E4C", "U+1E4D", "U+1E4E", "U+1E4F",
      "U+1E50", "U+1E51", "U+1E52", "U+1E53", "U+1E54", "U+1E55", "U+1E56", "U+1E57",
      "U+1E58", "U+1E59", "U+1E5A", "U+1E5B", "U+1E5C", "U+1E5D", "U+1E5E", "U+1E5F",
      "U+1E60", "U+1E61", "U+1E62", "U+1E63", "U+1E64", "U+1E65", "U+1E66", "U+1E67",
      "U+1E68", "U+1E69", "U+1E6A", "U+1E6B", "U+1E6C", "U+1E6D", "U+1E6E", "U+1E6F",
      "U+1E70", "U+1E71", "U+1E72", "U+1E73", "U+1E74", "U+1E75", "U+1E76", "U+1E77",
      "U+1E78", "U+1E79", "U+1E7A", "U+1E7B", "U+1E7C", "U+1E7D", "U+1E7E", "U+1E7F",
      "U+1E80", "U+1E81", "U+1E82", "U+1E83", "U+1E84", "U+1E85", "U+1E86", "U+1E87",
      "U+1E88", "U+1E89", "U+1E8A", "U+1E8B", "U+1E8C", "U+1E8D", "U+1E8E", "U+1E8F",
      "U+1E90", "U+1E91", "U+1E92", "U+1E93", "U+1E94", "U+1E95", "U+1E96", "U+1E97",
      "U+1E98", "U+1E99", "U+1E9B", "U+1EA0", "U+1EA1", "U+1EA2", "U+1EA3", "U+1EA4",
      "U+1EA5", "U+1EA6", "U+1EA7", "U+1EA8", "U+1EA9", "U+1EAA", "U+1EAB", "U+1EAC",
      "U+1EAD", "U+1EAE", "U+1EAF", "U+1EB0", "U+1EB1", "U+1EB2", "U+1EB3", "U+1EB4",
      "U+1EB5", "U+1EB6", "U+1EB7", "U+1EB8", "U+1EB9", "U+1EBA", "U+1EBB", "U+1EBC",
      "U+1EBD", "U+1EBE", "U+1EBF", "U+1EC0", "U+1EC1", "U+1EC2", "U+1EC3", "U+1EC4",
      "U+1EC5", "U+1EC6", "U+1EC7", "U+1EC8", "U+1EC9", "U+1ECA", "U+1ECB", "U+1ECC",
      "U+1ECD", "U+1ECE", "U+1ECF", "U+1ED0", "U+1ED1", "U+1ED2", "U+1ED3", "U+1ED4",
      "U+1ED5", "U+1ED6", "U+1ED7", "U+1ED8", "U+1ED9", "U+1EDA", "U+1EDB", "U+1EDC",
      "U+1EDD", "U+1EDE", "U+1EDF", "U+1EE0", "U+1EE1", "U+1EE2", "U+1EE3", "U+1EE4",
      "U+1EE5", "U+1EE6", "U+1EE7", "U+1EE8", "U+1EE9", "U+1EEA", "U+1EEB", "U+1EEC",
      "U+1EED", "U+1EEE", "U+1EEF", "U+1EF0", "U+1EF1", "U+1EF2", "U+1EF3", "U+1EF4",
      "U+1EF5", "U+1EF6", "U+1EF7", "U+1EF8", "U+1EF9", "U+1F00", "U+1F01", "U+1F02",
      "U+1F03", "U+1F04", "U+1F05", "U+1F06", "U+1F07", "U+1F08", "U+1F09", "U+1F0A",
      "U+1F0B", "U+1F0C", "U+1F0D", "U+1F0E", "U+1F0F", "U+1F10", "U+1F11", "U+1F12",
      "U+1F13", "U+1F14", "U+1F15", "U+1F18", "U+1F19", "U+1F1A", "U+1F1B", "U+1F1C",
      "U+1F1D", "U+1F20", "U+1F21", "U+1F22", "U+1F23", "U+1F24", "U+1F25", "U+1F26",
      "U+1F27", "U+1F28", "U+1F29", "U+1F2A", "U+1F2B", "U+1F2C", "U+1F2D", "U+1F2E",
      "U+1F2F", "U+1F30", "U+1F31", "U+1F32", "U+1F33", "U+1F34", "U+1F35", "U+1F36",
      "U+1F37", "U+1F38", "U+1F39", "U+1F3A", "U+1F3B", "U+1F3C", "U+1F3D", "U+1F3E",
      "U+1F3F", "U+1F40", "U+1F41", "U+1F42", "U+1F43", "U+1F44", "U+1F45", "U+1F48",
      "U+1F49", "U+1F4A", "U+1F4B", "U+1F4C", "U+1F4D", "U+1F50", "U+1F51", "U+1F52",
      "U+1F53", "U+1F54", "U+1F55", "U+1F56", "U+1F57", "U+1F59", "U+1F5B", "U+1F5D",
      "U+1F5F", "U+1F60", "U+1F61", "U+1F62", "U+1F63", "U+1F64", "U+1F65", "U+1F66",
      "U+1F67", "U+1F68", "U+1F69", "U+1F6A", "U+1F6B", "U+1F6C", "U+1F6D", "U+1F6E",
      "U+1F6F", "U+1F70", "U+1F71", "U+1F72", "U+1F73", "U+1F74", "U+1F75", "U+1F76",
      "U+1F77", "U+1F78", "U+1F79", "U+1F7A", "U+1F7B", "U+1F7C", "U+1F7D", "U+1F80",
      "U+1F81", "U+1F82", "U+1F83", "U+1F84", "U+1F85", "U+1F86", "U+1F87", "U+1F88",
      "U+1F89", "U+1F8A", "U+1F8B", "U+1F8C", "U+1F8D", "U+1F8E", "U+1F8F", "U+1F90",
      "U+1F91", "U+1F92", "U+1F93", "U+1F94", "U+1F95", "U+1F96", "U+1F97", "U+1F98",
      "U+1F99", "U+1F9A", "U+1F9B", "U+1F9C", "U+1F9D", "U+1F9E", "U+1F9F", "U+1FA0",
      "U+1FA1", "U+1FA2", "U+1FA3", "U+1FA4", "U+1FA5", "U+1FA6", "U+1FA7", "U+1FA8",
      "U+1FA9", "U+1FAA", "U+1FAB", "U+1FAC", "U+1FAD", "U+1FAE", "U+1FAF", "U+1FB0",
      "U+1FB1", "U+1FB2", "U+1FB3", "U+1FB4", "U+1FB6", "U+1FB7", "U+1FB8", "U+1FB9",
      "U+1FBA", "U+1FBB", "U+1FBC", "U+1FBE", "U+1FC2", "U+1FC3", "U+1FC4", "U+1FC6",
      "U+1FC7", "U+1FC8", "U+1FC9", "U+1FCA", "U+1FCB", "U+1FCC", "U+1FD0", "U+1FD1",
      "U+1FD2", "U+1FD3", "U+1FD6", "U+1FD7", "U+1FD8", "U+1FD9", "U+1FDA", "U+1FDB",
      "U+1FE0", "U+1FE1", "U+1FE2", "U+1FE3", "U+1FE4", "U+1FE5", "U+1FE6", "U+1FE7",
      "U+1FE8", "U+1FE9", "U+1FEA", "U+1FEB", "U+1FEC", "U+1FF2", "U+1FF3", "U+1FF4",
      "U+1FF6", "U+1FF7", "U+1FF8", "U+1FF9", "U+1FFA", "U+1FFB", "U+1FFC", "U+2126",
      "U+212A", "U+212B", "U+540D" }

\* XID_Continue and not XID_Start outside ASCII
Marks2 ==
    { "U+00B7", "U+0300", "U+0301", "U+0302", "U+0303", "U+0304", "U+0305", "U+0306",
      "U+0307", "U+0308", "U+0309", "U+030A", "U+030B", "U+030C", "U+030D", "U+030E",
      "U+030F", "U+0310", "U+0311", "U+0312", "U+0313", "U+0314", "U+0315", "U+0316",
      "U+0317", "U+0318", "U+0319", "U+031A", "U+031B", "U+031C", "U+031D", "U+031E",
      "U+031F", "U+0320", "U+0321", "U+0322", "U+0323", "U+0324", "U+0325", "U+0326",
      "U+0327", "U+0328", "U+0329", "U+032A", "U+032B", "U+032C", "U+032D", "U+032E",
      "U+032F", "U+0330", "U+0331", "U+0332", "U+0333", "U+0334", "U+0335", "U+0336",
      "U+0337", "U+0338", "U+0339", "U+033A", "U+033B", "U+033C", "U+033D", "U+033E",
      "U+033F", "U+0340", "U+0341", "U+0342", "U+0343", "U+0344", "U+0345", "U+0346",
      "U+0347", "U+0348", "U+0349", "U+034A", "U+034B", "U+034C", "U+034D", "U+034E",
      "U+034F", "U+0350", "U+0351", "U+0352", "U+0353", "U+0354", "U+0355", "U+0356",
      "U+0357", "U+0358", "U+0359", "U+035A", "U+035B", "U+035C", "U+035D", "U+035E",
      "U+035F", "U+0360", "U+0361", "U+0362", "U+0363", "U+0364", "U+0365", "U+0366",
      "U+0367", "U+0368", "U+0369", "U+036A", "U+036B", "U+036C", "U+036D", "U+036E",
      "U+036F", "U+0387" }

Marks3 == {}

\* the other characters outside ASCII
Others2 ==
    { "U+0085", "U+00A0", "U+037E" }

Others3 ==
    { "U+1680", "U+2000", "U+2001", "U+2002", "U+2003", "U+2004", "U+2005", "U+2006",
      "U+2007", "U+2008", "U+2009", "U+200A", "U+2028", "U+2029", "U+202F", "U+205F",
      "U+226E", "U+226F", "U+3000" }

\* the letters above without case
Uncased_Letters ==
    { "U+02B9", "U+0374", "U+540D" }

\* the other characters with case
Cased_Marks ==
    { "U+0345" }

\* Case_Ignorable outside ASCII
Case_Ignorable_NonAscii ==
    { "U+00B7", "U+02B9", "U+0300", "U+0301", "U+0302", "U+0303", "U+0304", "U+0305",
      "U+0306", "U+0307", "U+0308", "U+0309", "U+030A", "U+030B", "U+030C", "U+030D",
      "U+030E", "U+030F", "U+0310", "U+0311", "U+0312", "U+0313", "U+0314", "U+0315",
      "U+0316", "U+0317", "U+0318", "U+0319", "U+031A", "U+031B", "U+031C", "U+031D",
      "U+031E", "U+031F", "U+0320", "U+0321", "U+0322", "U+0323", "U+0324", "U+0325",
      "U+0326", "U+0327", "U+0328", "U+0329", "U+032A", "U+032B", "U+032C", "U+032D",
      "U+032E", "U+032F", "U+0330", "U+0331", "U+0332", "U+0333", "U+0334", "U+0335",
      "U+0336", "U+0337", "U+0338", "U+0339", "U+033A", "U+033B", "U+033C", "U+033D",
      "U+033E", "U+033F", "U+0340", "U+0341", "U+0342", "U+0343", "U+0344", "U+0345",
      "U+0346", "U+0347", "U+0348", "U+0349", "U+034A", "U+034B", "U+034C", "U+034D",
      "U+034E", "U+034F", "U+0350", "U+0351", "U+0352", "U+0353", "U+0354", "U+0355",
      "U+0356", "U+0357", "U+0358", "U+0359", "U+035A", "U+035B", "U+035C", "U+035D",
      "U+035E", "U+035F", "U+0360", "U+0361", "U+0362", "U+0363", "U+0364", "U+0365",
      "U+0366", "U+0367", "U+0368", "U+0369", "U+036A", "U+036B", "U+036C", "U+036D",
      "U+036E", "U+036F", "U+0374", "U+0387" }

\* the canonical compositions <<first, second, composite>>
Compositions ==
    { <<"A", "U+0300", "U+00C0">>, <<"A", "U+0301", "U+00C1">>,
      <<"A", "U+0302", "U+00C2">>, <<"A", "U+0303", "U+00C3">>,
      <<"A", "U+0308", "U+00C4">>, <<"A", "U+030A", "U+00C5">>,
      <<"C", "U+0327", "U+00C7">>, <<"E", "U+0300", "U+00C8">>,
      <<"E", "U+0301", "U+00C9">>, <<"E", "U+0302", "U+00CA">>,
      <<"E", "U+0308", "U+00CB">>, <<"I", "U+0300", "U+00CC">>,
      <<"I", "U+0301", "U+00CD">>, <<"I", "U+0302", "U+00CE">>,
      <<"I", "U+0308", "U+00CF">>, <<"N", "U+0303", "U+00D1">>,
      <<"O", "U+0300", "U+00D2">>, <<"O", "U+0301", "U+00D3">>,
      <<"O", "U+0302", "U+00D4">>, <<"O", "U+0303", "U+00D5">>,
      <<"O", "U+0308", "U+00D6">>, <<"U", "U+0300", "U+00D9">>,
      <<"U", "U+0301", "U+00DA">>, <<"U", "U+0302", "U+00DB">>,
      <<"U", "U+0308", "U+00DC">>, <<"Y", "U+0301", "U+00DD">>,
      <<"a", "U+0300", "U+00E0">>, <<"a", "U+0301", "U+00E1">>,
      <<"a", "U+0302", "U+00E2">>, <<"a", "U+0303", "U+00E3">>,
      <<"a", "U+0308", "U+00E4">>, <<"a", "U+030A", "U+00E5">>,
      <<"c", "U+0327", "U+00E7">>, <<"e", "U+0300", "U+00E8">>,
      <<"e", "U+0301", "U+00E9">>, <<"e", "U+0302", "U+00EA">>,
      <<"e", "U+0308", "U+00EB">>, <<"i", "U+0300", "U+00EC">>,
      <<"i", "U+0301", "U+00ED">>, <<"i", "U+0302", "U+00EE">>,
      <<"i", "U+0308", "U+00EF">>, <<"n", "U+0303", "U+00F1">>,
      <<"o", "U+0300", "U+00F2">>, <<"o", "U+0301", "U+00F3">>,
      <<"o", "U+0302", "U+00F4">>, <<"o", "U+0303", "U+00F5">>,
      <<"o", "U+0308", "U+00F6">>, <<"u", "U+0300", "U+00F9">>,
      <<"u", "U+0301", "U+00FA">>, <<"u", "U+0302", "U+00FB">>,
      <<"u", "U+0308", "U+00FC">>, <<"y", "U+0301", "U+00FD">>,
      <<"y", "U+0308", "U+00FF">>, <<"A", "U+0304", "U+0100">>,
      <<"a", "U+0304", "U+0101">>, <<"A", "U+0306", "U+0102">>,
      <<"a", "U+0306", "U+0103">>, <<"A", "U+0328", "U+0104">>,
      <<"a", "U+0328", "U+0105">>, <<"C", "U+0301", "U+0106">>,
      <<"c", "U+0301", "U+0107">>, <<"C", "U+0302", "U+0108">>,
      <<"c", "U+0302", "U+0109">>, <<"C", "U+0307", "U+010A">>,
      <<"c", "U+0307", "U+010B">>, <<"C", "U+030C", "U+010C">>,
      <<"c", "U+030C", "U+010D">>, <<"D", "U+030C", "U+010E">>,
      <<"d", "U+030C", "U+010F">>, <<"E", "U+0304", "U+0112">>,
      <<"e", "U+0304", "U+0113">>, <<"E", "U+0306", "U+0114">>,
      <<"e", "U+0306", "U+0115">>, <<"E", "U+0307", "U+0116">>,
      <<"e", "U+0307", "U+0117">>, <<"E", "U+0328", "U+0118">>,
      <<"e", "U+0328", "U+0119">>, <<"E", "U+030C", "U+011A">>,
      <<"e", "U+030C", "U+011B">>, <<"G", "U+0302", "U+011C">>,
      <<"g", "U+0302", "U+011D">>, <<"G", "U+0306", "U+011E">>,
      <<"g", "U+0306", "U+011F">>, <<"G", "U+0307", "U+0120">>,
      <<"g", "U+0307", "U+0121">>, <<"G", "U+0327", "U+0122">>,
      <<"g", "U+0327", "U+0123">>, <<"H", "U+0302", "U+0124">>,
      <<"h", "U+0302", "U+0125">>, <<"I", "U+0303", "U+0128">>,
      <<"i", "U+0303", "U+0129">>, <<"I", "U+0304", "U+012A">>,
      <<"i", "U+0304", "U+012B">>, <<"I", "U+0306", "U+012C">>,
      <<"i", "U+0306", "U+012D">>, <<"I", "U+0328", "U+012E">>,
      <<"i", "U+0328", "U+012F">>, <<"I", "U+0307", "U+0130">>,
      <<"J", "U+0302", "U+0134">>, <<"j", "U+0302", "U+0135">>,
      <<"K", "U+0327", "U+0136">>, <<"k", "U+0327", "U+0137">>,
      <<"L", "U+0301", "U+0139">>, <<"l", "U+0301", "U+013A">>,
      <<"L", "U+0327", "U+013B">>, <<"l", "U+0327", "U+013C">>,
      <<"L", "U+030C", "U+013D">>, <<"l", "U+030C", "U+013E">>,
      <<"N", "U+0301", "U+0143">>, <<"n", "U+0301", "U+0144">>,
      <<"N", "U+0327", "U+0145">>, <<"n", "U+0327", "U+0146">>,
      <<"N", "U+030C", "U+0147">>, <<"n", "U+030C", "U+0148">>,
      <<"O", "U+0304", "U+014C">>, <<"o", "U+0304", "U+014D">>,
      <<"O", "U+0306", "U+014E">>, <<"o", "U+0306", "U+014F">>,
      <<"O", "U+030B", "U+0150">>, <<"o", "U+030B", "U+0151">>,
      <<"R", "U+0301", "U+0154">>, <<"r", "U+0301", "U+0155">>,
      <<"R", "U+0327", "U+0156">>, <<"r", "U+0327", "U+0157">>,
      <<"R", "U+030C", "U+0158">>, <<"r", "U+030C", "U+0159">>,
      <<"S", "U+0301", "U+015A">>, <<"s", "U+0301", "U+015B">>,
      <<"S", "U+0302", "U+015C">>, <<"s", "U+0302", "U+015D">>,
      <<"S", "U+0327", "U+015E">>, <<"s", "U+0327", "U+015F">>,
      <<"S", "U+030C", "U+0160">>, <<"s", "U+030C", "U+0161">>,
      <<"T", "U+0327", "U+0162">>, <<"t", "U+0327", "U+0163">>,
      <<"T", "U+030C", "U+0164">>, <<"t", "U+030C", "U+0165">>,
      <<"U", "U+0303", "U+0168">>, <<"u", "U+0303", "U+0169">>,
      <<"U", "U+0304", "U+016A">>, <<"u", "U+0304", "U+016B">>,
      <<"U", "U+0306", "U+016C">>, <<"u", "U+0306", "U+016D">>,
      <<"U", "U+030A", "U+016E">>, <<"u", "U+030A", "U+016F">>,
      <<"U", "U+030B", "U+0170">>, <<"u", "U+030B", "U+0171">>,
      <<"U", "U+0328", "U+0172">>, <<"u", "U+0328", "U+0173">>,
      <<"W", "U+0302", "U+0174">>, <<"w", "U+0302", "U+0175">>,
      <<"Y", "U+0302", "U+0176">>, <<"y", "U+0302", "U+0177">>,
      <<"Y", "U+0308", "U+0178">>, <<"Z", "U+0301", "U+0179">>,
      <<"z", "U+0301", "U+017A">>, <<"Z", "U+0307", "U+017B">>,
      <<"z", "U+0307", "U+017C">>, <<"Z", "U+030C", "U+017D">>,
      <<"z", "U+030C", "U+017E">>, <<"O", "U+031B", "U+01A0">>,
      <<"o", "U+031B", "U+01A1">>, <<"U", "U+031B", "U+01AF">>,
      <<"u", "U+031B", "U+01B0">>, <<"A", "U+030C", "U+01CD">>,
      <<"a", "U+030C", "U+01CE">>, <<"I", "U+030C", "U+01CF">>,
      <<"i", "U+030C", "U+01D0">>, <<"O", "U+030C", "U+01D1">>,
      <<"o", "U+030C", "U+01D2">>, <<"U", "U+030C", "U+01D3">>,
      <<"u", "U+030C", "U+01D4">>, <<"U+00DC", "U+0304", "U+01D5">>,
      <<"U+00FC", "U+0304", "U+01D6">>, <<"U+00DC", "U+0301", "U+01D7">>,
      <<"U+00FC", "U+0301", "U+01D8">>, <<"U+00DC", "U+030C", "U+01D9">>,
      <<"U+00FC", "U+030C", "U+01DA">>, <<"U+00DC", "U+0300", "U+01DB">>,
      <<"U+00FC", "U+0300", "U+01DC">>, <<"U+00C4", "U+0304", "U+01DE">>,
      <<"U+00E4", "U+0304", "U+01DF">>, <<"U+0226", "U+0304", "U+01E0">>,
      <<"U+0227", "U+0304", "U+01E1">>, <<"U+00C6", "U+0304", "U+01E2">>,
      <<"U+00E6", "U+0304", "U+01E3">>, <<"G", "U+030C", "U+01E6">>,
      <<"g", "U+030C", "U+01E7">>, <<"K", "U+030C", "U+01E8">>,
      <<"k", "U+030C", "U+01E9">>, <<"O", "U+0328", "U+01EA">>,
      <<"o", "U+0328", "U+01EB">>, <<"U+01EA", "U+0304", "U+01EC">>,
      <<"U+01EB", "U+0304", "U+01ED">>, <<"j", "U+030C", "U+01F0">>,
      <<"G", "U+0301", "U+01F4">>, <<"g", "U+0301", "U+01F5">>,
      <<"N", "U+0300", "U+01F8">>, <<"n", "U+0300", "U+01F9">>,
      <<"U+00C5", "U+0301", "U+01FA">>, <<"U+00E5", "U+0301", "U+01FB">>,
      <<"U+00C6", "U+0301", "U+01FC">>, <<"U+00E6", "U+0301", "U+01FD">>,
      <<"U+00D8", "U+0301", "U+01FE">>, <<"U+00F8", "U+0301", "U+01FF">>,
      <<"A", "U+030F", "U+0200">>, <<"a", "U+030F", "U+0201">>,
      <<"A", "U+0311", "U+0202">>, <<"a", "U+0311", "U+0203">>,
      <<"E", "U+030F", "U+0204">>, <<"e", "U+030F", "U+0205">>,
      <<"E", "U+0311", "U+0206">>, <<"e", "U+0311", "U+0207">>,
      <<"I", "U+030F", "U+0208">>, <<"i", "U+030F", "U+0209">>,
      <<"I", "U+0311", "U+020A">>, <<"i", "U+0311", "U+020B">>,
      <<"O", "U+030F", "U+020C">>, <<"o", "U+030F", "U+020D">>,
      <<"O", "U+0311", "U+020E">>, <<"o", "U+0311", "U+020F">>,
      <<"R", "U+030F", "U+0210">>, <<"r", "U+030F", "U+0211">>,
      <<"R", "U+0311", "U+0212">>, <<"r", "U+0311", "U+0213">>,
      <<"U", "U+030F", "U+0214">>, <<"u", "U+030F", "U+0215">>,
      <<"U", "U+0311", "U+0216">>, <<"u", "U+0311", "U+0217">>,
      <<"S", "U+0326", "U+0218">>, <<"s", "U+0326", "U+0219">>,
      <<"T", "U+0326", "U+021A">>, <<"t", "U+0326", "U+021B">>,
      <<"H", "U+030C", "U+021E">>, <<"h", "U+030C", "U+021F">>,
      <<"A", "U+0307", "U+0226">>, <<"a", "U+0307", "U+0227">>,
      <<"E", "U+0327", "U+0228">>, <<"e", "U+0327", "U+0229">>,
      <<"U+00D6", "U+0304", "U+022A">>, <<"U+00F6", "U+0304", "U+022B">>,
      <<"U+00D5", "U+0304", "U+022C">>, <<"U+00F5", "U+0304", "U+022D">>,
      <<"O", "U+0307", "U+022E">>, <<"o", "U+0307", "U+022F">>,
      <<"U+022E", "U+0304", "U+0230">>, <<"U+022F", "U+0304", "U+0231">>,
      <<"Y", "U+0304", "U+0232">>, <<"y", "U+0304", "U+0233">>,
      <<"U+0391", "U+0301", "U+0386">>, <<"U+0395", "U+0301", "U+0388">>,
      <<"U+0397", "U+0301", "U+0389">>, <<"U+0399", "U+0301", "U+038A">>,
      <<"U+039F", "U+0301", "U+038C">>, <<"U+03A5", "U+0301", "U+038E">>,
      <<"U+03A9", "U+0301", "U+038F">>, <<"U+03CA", "U+0301", "U+0390">>,
      <<"U+0399", "U+0308", "U+03AA">>, <<"U+03A5", "U+0308", "U+03AB">>,
      <<"U+03B1", "U+0301", "U+03AC">>, <<"U+03B5", "U+0301", "U+03AD">>,
      <<"U+03B7", "U+0301", "U+03AE">>, <<"U+03B9", "U+0301", "U+03AF">>,
      <<"U+03CB", "U+0301", "U+03B0">>, <<"U+03B9", "U+0308", "U+03CA">>,
      <<"U+03C5", "U+0308", "U+03CB">>, <<"U+03BF", "U+0301", "U+03CC">>,
      <<"U+03C5", "U+0301", "U+03CD">>, <<"U+03C9", "U+0301", "U+03CE">>,
      <<"U+03D2", "U+0301", "U+03D3">>, <<"U+03D2", "U+0308", "U+03D4">>,
      <<"U+0415", "U+0300", "U+0400">>, <<"U+0415", "U+0308", "U+0401">>,
      <<"U+0413", "U+0301", "U+0403">>, <<"U+0406", "U+0308", "U+0407">>,
      <<"U+041A", "U+0301", "U+040C">>, <<"U+0418", "U+0300", "U+040D">>,
      <<"U+0423", "U+0306", "U+040E">>, <<"U+0418", "U+0306", "U+0419">>,
      <<"U+0438", "U+0306", "U+0439">>, <<"U+0435", "U+0300", "U+0450">>,
      <<"U+0435", "U+0308", "U+0451">>, <<"U+0433", "U+0301", "U+0453">>,
      <<"U+0456", "U+0308", "U+0457">>, <<"U+043A", "U+0301", "U+045C">>,
      <<"U+0438", "U+0300", "U+045D">>, <<"U+0443", "U+0306", "U+045E">>,
      <<"U+0416", "U+0306", "U+04C1">>, <<"U+0436", "U+0306", "U+04C2">>,
      <<"U+0410", "U+0306", "U+04D0">>, <<"U+0430", "U+0306", "U+04D1">>,
      <<"U+0410", "U+0308", "U+04D2">>, <<"U+0430", "U+0308", "U+04D3">>,
      <<"U+0415", "U+0306", "U+04D6">>, <<"U+0435", "U+0306", "U+04D7">>,
      <<"U+0416", "U+0308", "U+04DC">>, <<"U+0436", "U+0308", "U+04DD">>,
      <<"U+0417", "U+0308", "U+04DE">>, <<"U+0437", "U+0308", "U+04DF">>,
      <<"U+0418", "U+0304", "U+04E2">>, <<"U+0438", "U+0304", "U+04E3">>,
      <<"U+0418", "U+0308", "U+04E4">>, <<"U+0438", "U+0308", "U+04E5">>,
      <<"U+041E", "U+0308", "U+04E6">>, <<"U+043E", "U+0308", "U+04E7">>,
      <<"U+042D", "U+0308", "U+04EC">>, <<"U+044D", "U+0308", "U+04ED">>,
      <<"U+0423", "U+0304", "U+04EE">>, <<"U+0443", "U+0304", "U+04EF">>,
      <<"U+0423", "U+0308", "U+04F0">>, <<"U+0443", "U+0308", "U+04F1">>,
      <<"U+0423", "U+030B", "U+04F2">>, <<"U+0443", "U+030B", "U+04F3">>,
      <<"U+0427", "U+0308", "U+04F4">>, <<"U+0447", "U+0308", "U+04F5">>,
      <<"U+042B", "U+0308", "U+04F8">>, <<"U+044B", "U+0308", "U+04F9">>,
      <<"A", "U+0325", "U+1E00">>, <<"a", "U+0325", "U+1E01">>,
      <<"B", "U+0307", "U+1E02">>, <<"b", "U+0307", "U+1E03">>,
      <<"B", "U+0323", "U+1E04">>, <<"b", "U+0323", "U+1E05">>,
      <<"B", "U+0331", "U+1E06">>, <<"b", "U+0331", "U+1E07">>,
      <<"U+00C7", "U+0301", "U+1E08">>, <<"U+00E7", "U+0301", "U+1E09">>,
      <<"D", "U+0307", "U+1E0A">>, <<"d", "U+0307", "U+1E0B">>,
      <<"D", "U+0323", "U+1E0C">>, <<"d", "U+0323", "U+1E0D">>,
      <<"D", "U+0331", "U+1E0E">>, <<"d", "U+0331", "U+1E0F">>,
      <<"D", "U+0327", "U+1E10">>, <<"d", "U+0327", "U+1E11">>,
      <<"D", "U+032D", "U+1E12">>, <<"d", "U+032D", "U+1E13">>,
      <<"U+0112", "U+0300", "U+1E14">>, <<"U+0113", "U+0300", "U+1E15">>,
      <<"U+0112", "U+0301", "U+1E16">>, <<"U+0113", "U+0301", "U+1E17">>,
      <<"E", "U+032D", "U+1E18">>, <<"e", "U+032D", "U+1E19">>,
      <<"E", "U+0330", "U+1E1A">>, <<"e", "U+0330", "U+1E1B">>,
      <<"U+0228", "U+0306", "U+1E1C">>, <<"U+0229", "U+0306", "U+1E1D">>,
      <<"F", "U+0307", "U+1E1E">>, <<"f", "U+0307", "U+1E1F">>,
      <<"G", "U+0304", "U+1E20">>, <<"g", "U+0304", "U+1E21">>,
      <<"H", "U+0307", "U+1E22">>, <<"h", "U+0307", "U+1E23">>,
      <<"H", "U+0323", "U+1E24">>, <<"h", "U+0323", "U+1E25">>,
      <<"H", "U+0308", "U+1E26">>, <<"h", "U+0308", "U+1E27">>,
      <<"H", "U+0327", "U+1E28">>, <<"h", "U+0327", "U+1E29">>,
      <<"H", "U+032E", "U+1E2A">>, <<"h", "U+032E", "U+1E2B">>,
      <<"I", "U+0330", "U+1E2C">>, <<"i", "U+0330", "U+1E2D">>,
      <<"U+00CF", "U+0301", "U+1E2E">>, <<"U+00EF", "U+0301", "U+1E2F">>,
      <<"K", "U+0301", "U+1E30">>, <<"k", "U+0301", "U+1E31">>,
      <<"K", "U+0323", "U+1E32">>, <<"k", "U+0323", "U+1E33">>,
      <<"K", "U+0331", "U+1E34">>, <<"k", "U+0331", "U+1E35">>,
      <<"L", "U+0323", "U+1E36">>, <<"l", "U+0323", "U+1E37">>,
      <<"U+1E36", "U+0304", "U+1E38">>, <<"U+1E37", "U+0304", "U+1E39">>,
      <<"L", "U+0331", "U+1E3A">>, <<"l", "U+0331", "U+1E3B">>,
      <<"L", "U+032D", "U+1E3C">>, <<"l", "U+032D", "U+1E3D">>,
      <<"M", "U+0301", "U+1E3E">>, <<"m", "U+0301", "U+1E3F">>,
      <<"M", "U+0307", "U+1E40">>, <<"m", "U+0307", "U+1E41">>,
      <<"M", "U+0323", "U+1E42">>, <<"m", "U+0323", "U+1E43">>,
      <<"N", "U+0307", "U+1E44">>, <<"n", "U+0307", "U+1E45">>,
      <<"N", "U+0323", "U+1E46">>, <<"n", "U+0323", "U+1E47">>,
      <<"N", "U+0331", "U+1E48">>, <<"n", "U+0331", "U+1E49">>,
      <<"N", "U+032D", "U+1E4A">>, <<"n", "U+032D", "U+1E4B">>,
      <<"U+00D5", "U+0301", "U+1E4C">>, <<"U+00F5", "U+0301", "U+1E4D">>,
      <<"U+00D5", "U+0308", "U+1E4E">>, <<"U+00F5", "U+0308", "U+1E4F">>,
      <<"U+014C", "U+0300", "U+1E50">>, <<"U+014D", "U+0300", "U+1E51">>,
      <<"U+014C", "U+0301", "U+1E52">>, <<"U+014D", "U+0301", "U+1E53">>,
      <<"P", "U+0301", "U+1E54">>, <<"p", "U+0301", "U+1E55">>,
      <<"P", "U+0307", "U+1E56">>, <<"p", "U+0307", "U+1E57">>,
      <<"R", "U+0307", "U+1E58">>, <<"r", "U+0307", "U+1E59">>,
      <<"R", "U+0323", "U+1E5A">>, <<"r", "U+0323", "U+1E5B">>,
      <<"U+1E5A", "U+0304", "U+1E5C">>, <<"U+1E5B", "U+0304", "U+1E5D">>,
      <<"R", "U+0331", "U+1E5E">>, <<"r", "U+0331", "U+1E5F">>,
      <<"S", "U+0307", "U+1E60">>, <<"s", "U+0307", "U+1E61">>,
      <<"S", "U+0323", "U+1E62">>, <<"s", "U+0323", "U+1E63">>,
      <<"U+015A", "U+0307", "U+1E64">>, <<"U+015B", "U+0307", "U+1E65">>,
      <<"U+0160", "U+0307", "U+1E66">>, <<"U+0161", "U+0307", "U+1E67">>,
      <<"U+1E62", "U+0307", "U+1E68">>, <<"U+1E63", "U+0307", "U+1E69">>,
      <<"T", "U+0307", "U+1E6A">>, <<"t", "U+0307", "U+1E6B">>,
      <<"T", "U+0323", "U+1E6C">>, <<"t", "U+0323", "U+1E6D">>,
      <<"T", "U+0331", "U+1E6E">>, <<"t", "U+0331", "U+1E6F">>,
      <<"T", "U+032D", "U+1E70">>, <<"t", "U+032D", "U+1E71">>,
      <<"U", "U+0324", "U+1E72">>, <<"u", "U+0324", "U+1E73">>,
      <<"U", "U+0330", "U+1E74">>, <<"u", "U+0330", "U+1E75">>,
      <<"U", "U+032D", "U+1E76">>, <<"u", "U+032D", "U+1E77">>,
      <<"U+0168", "U+0301", "U+1E78">>, <<"U+0169", "U+0301", "U+1E79">>,
      <<"U+016A", "U+0308", "U+1E7A">>, <<"U+016B", "U+0308", "U+1E7B">>,
      <<"V", "U+0303", "U+1E7C">>, <<"v", "U+0303", "U+1E7D">>,
      <<"V", "U+0323", "U+1E7E">>, <<"v", "U+0323", "U+1E7F">>,
      <<"W", "U+0300", "U+1E80">>, <<"w", "U+0300", "U+1E81">>,
      <<"W", "U+0301", "U+1E82">>, <<"w", "U+0301", "U+1E83">>,
      <<"W", "U+0308", "U+1E84">>, <<"w", "U+0308", "U+1E85">>,
      <<"W", "U+0307", "U+1E86">>, <<"w", "U+0307", "U+1E87">>,
      <<"W", "U+0323", "U+1E88">>, <<"w", "U+0323", "U+1E89">>,
      <<"X", "U+0307", "U+1E8A">>, <<"x", "U+0307", "U+1E8B">>,
      <<"X", "U+0308", "U+1E8C">>, <<"x", "U+0308", "U+1E8D">>,
      <<"Y", "U+0307", "U+1E8E">>, <<"y", "U+0307", "U+1E8F">>,
      <<"Z", "U+0302", "U+1E90">>, <<"z", "U+0302", "U+1E91">>,
      <<"Z", "U+0323", "U+1E92">>, <<"z", "U+0323", "U+1E93">>,
      <<"Z", "U+0331", "U+1E94">>, <<"z", "U+0331", "U+1E95">>,
      <<"h", "U+0331", "U+1E96">>, <<"t", "U+0308", "U+1E97">>,
      <<"w", "U+030A", "U+1E98">>, <<"y", "U+030A", "U+1E99">>,
      <<"U+017F", "U+0307", "U+1E9B">>, <<"A", "U+0323", "U+1EA0">>,
      <<"a", "U+0323", "U+1EA1">>, <<"A", "U+0309", "U+1EA2">>,
      <<"a", "U+0309", "U+1EA3">>, <<"U+00C2", "U+0301", "U+1EA4">>,
      <<"U+00E2", "U+0301", "U+1EA5">>, <<"U+00C2", "U+0300", "U+1EA6">>,
      <<"U+00E2", "U+0300", "U+1EA7">>, <<"U+00C2", "U+0309", "U+1EA8">>,
      <<"U+00E2", "U+0309", "U+1EA9">>, <<"U+00C2", "U+0303", "U+1EAA">>,
      <<"U+00E2", "U+0303", "U+1EAB">>, <<"U+1EA0", "U+0302", "U+1EAC">>,
      <<"U+1EA1", "U+0302", "U+1EAD">>, <<"U+0102", "U+0301", "U+1EAE">>,
      <<"U+0103", "U+0301", "U+1EAF">>, <<"U+0102", "U+0300", "U+1EB0">>,
      <<"U+0103", "U+0300", "U+1EB1">>, <<"U+0102", "U+0309", "U+1EB2">>,
      <<"U+0103", "U+0309", "U+1EB3">>, <<"U+0102", "U+0303", "U+1EB4">>,
      <<"U+0103", "U+0303", "U+1EB5">>, <<"U+1EA0", "U+0306", "U+1EB6">>,
      <<"U+1EA1", "U+0306", "U+1EB7">>, <<"E", "U+0323", "U+1EB8">>,
      <<"e", "U+0323", "U+1EB9">>, <<"E", "U+0309", "U+1EBA">>,
      <<"e", "U+0309", "U+1EBB">>, <<"E", "U+0303", "U+1EBC">>,
      <<"e", "U+0303", "U+1EBD">>, <<"U+00CA", "U+0301", "U+1EBE">>,
      <<"U+00EA", "U+0301", "U+1EBF">>, <<"U+00CA", "U+0300", "U+1EC0">>,
      <<"U+00EA", "U+0300", "U+1EC1">>, <<"U+00CA", "U+0309", "U+1EC2">>,
      <<"U+00EA", "U+0309", "U+1EC3">>, <<"U+00CA", "U+0303", "U+1EC4">>,
      <<"U+00EA", "U+0303", "U+1EC5">>, <<"U+1EB8", "U+0302", "U+1EC6">>,
      <<"U+1EB9", "U+0302", "U+1EC7">>, <<"I", "U+0309", "U+1EC8">>,
      <<"i", "U+0309", "U+1EC9">>, <<"I", "U+0323", "U+1ECA">>,
      <<"i", "U+0323", "U+1ECB">>, <<"O", "U+0323", "U+1ECC">>,
      <<"o", "U+0323", "U+1ECD">>, <<"O", "U+0309", "U+1ECE">>,
      <<"o", "U+0309", "U+1ECF">>, <<"U+00D4", "U+0301", "U+1ED0">>,
      <<"U+00F4", "U+0301", "U+1ED1">>, <<"U+00D4", "U+0300", "U+1ED2">>,
      <<"U+00F4", "U+0300", "U+1ED3">>, <<"U+00D4", "U+0309", "U+1ED4">>,
      <<"U+00F4", "U+0309", "U+1ED5">>, <<"U+00D4", "U+0303", "U+1ED6">>,
      <<"U+00F4", "U+0303", "U+1ED7">>, <<"U+1ECC", "U+0302", "U+1ED8">>,
      <<"U+1ECD", "U+0302", "U+1ED9">>, <<"U+01A0", "U+0301", "U+1EDA">>,
      <<"U+01A1", "U+0301", "U+1EDB">>, <<"U+01A0", "U+0300", "U+1EDC">>,
      <<"U+01A1", "U+0300", "U+1EDD">>, <<"U+01A0", "U+0309", "U+1EDE">>,
      <<"U+01A1", "U+0309", "U+1EDF">>, <<"U+01A0", "U+0303", "U+1EE0">>,
      <<"U+01A1", "U+0303", "U+1EE1">>, <<"U+01A0", "U+0323", "U+1EE2">>,
      <<"U+01A1", "U+0323", "U+1EE3">>, <<"U", "U+0323", "U+1EE4">>,
      <<"u", "U+0323", "U+1EE5">>, <<"U", "U+0309", "U+1EE6">>,
      <<"u", "U+0309", "U+1EE7">>, <<"U+01AF", "U+0301", "U+1EE8">>,
      <<"U+01B0", "U+0301", "U+1EE9">>, <<"U+01AF", "U+0300", "U+1EEA">>,
      <<"U+01B0", "U+0300", "U+1EEB">>, <<"U+01AF", "U+0309", "U+1EEC">>,
      <<"U+01B0", "U+0309", "U+1EED">>, <<"U+01AF", "U+0303", "U+1EEE">>,
      <<"U+01B0", "U+0303", "U+1EEF">>, <<"U+01AF", "U+0323", "U+1EF0">>,
      <<"U+01B0", "U+0323", "U+1EF1">>, <<"Y", "U+0300", "U+1EF2">>,
      <<"y", "U+0300", "U+1EF3">>, <<"Y", "U+0323", "U+1EF4">>,
      <<"y", "U+0323", "U+1EF5">>, <<"Y", "U+0309", "U+1EF6">>,
      <<"y", "U+0309", "U+1EF7">>, <<"Y", "U+0303", "U+1EF8">>,
      <<"y", "U+0303", "U+1EF9">>, <<"U+03B1", "U+0313", "U+1F00">>,
      <<"U+03B1", "U+0314", "U+1F01">>, <<"U+1F00", "U+0300", "U+1F02">>,
      <<"U+1F01", "U+0300", "U+1F03">>, <<"U+1F00", "U+0301", "U+1F04">>,
      <<"U+1F01", "U+0301", "U+1F05">>, <<"U+1F00", "U+0342", "U+1F06">>,
      <<"U+1F01", "U+0342", "U+1F07">>, <<"U+0391", "U+0313", "U+1F08">>,
      <<"U+0391", "U+0314", "U+1F09">>, <<"U+1F08", "U+0300", "U+1F0A">>,
      <<"U+1F09", "U+0300", "U+1F0B">>, <<"U+1F08", "U+0301", "U+1F0C">>,
      <<"U+1F09", "U+0301", "U+1F0D">>, <<"U+1F08", "U+0342", "U+1F0E">>,
      <<"U+1F09", "U+0342", "U+1F0F">>, <<"U+03B5", "U+0313", "U+1F10">>,
      <<"U+03B5", "U+0314", "U+1F11">>, <<"U+1F10", "U+0300", "U+1F12">>,
      <<"U+1F11", "U+0300", "U+1F13">>, <<"U+1F10", "U+0301", "U+1F14">>,
      <<"U+1F11", "U+0301", "U+1F15">>, <<"U+0395", "U+0313", "U+1F18">>,
      <<"U+0395", "U+0314", "U+1F19">>, <<"U+1F18", "U+0300", "U+1F1A">>,
      <<"U+1F19", "U+0300", "U+1F1B">>, <<"U+1F18", "U+0301", "U+1F1C">>,
      <<"U+1F19", "U+0301", "U+1F1D">>, <<"U+03B7", "U+0313", "U+1F20">>,
      <<"U+03B7", "U+0314", "U+1F21">>, <<"U+1F20", "U+0300", "U+1F22">>,
      <<"U+1F21", "U+0300", "U+1F23">>, <<"U+1F20", "U+0301", "U+1F24">>,
      <<"U+1F21", "U+0301", "U+1F25">>, <<"U+1F20", "U+0342", "U+1F26">>,
      <<"U+1F21", "U+0342", "U+1F27">>, <<"U+0397", "U+0313", "U+1F28">>,
      <<"U+0397", "U+0314", "U+1F29">>, <<"U+1F28", "U+0300", "U+1F2A">>,
      <<"U+1F29", "U+0300", "U+1F2B">>, <<"U+1F28", "U+0301", "U+1F2C">>,
      <<"U+1F29", "U+0301", "U+1F2D">>, <<"U+1F28", "U+0342", "U+1F2E">>,
      <<"U+1F29", "U+0342", "U+1F2F">>, <<"U+03B9", "U+0313", "U+1F30">>,
      <<"U+03B9", "U+0314", "U+1F31">>, <<"U+1F30", "U+0300", "U+1F32">>,
      <<"U+1F31", "U+0300", "U+1F33">>, <<"U+1F30", "U+0301", "U+1F34">>,
      <<"U+1F31", "U+0301", "U+1F35">>, <<"U+1F30", "U+0342", "U+1F36">>,
      <<"U+1F31", "U+0342", "U+1F37">>, <<"U+0399", "U+0313", "U+1F38">>,
      <<"U+0399", "U+0314", "U+1F39">>, <<"U+1F38", "U+0300", "U+1F3A">>,
      <<"U+1F39", "U+0300", "U+1F3B">>, <<"U+1F38", "U+0301", "U+1F3C">>,
      <<"U+1F39", "U+0301", "U+1F3D">>, <<"U+1F38", "U+0342", "U+1F3E">>,
      <<"U+1F39", "U+0342", "U+1F3F">>, <<"U+03BF", "U+0313", "U+1F40">>,
      <<"U+03BF", "U+0314", "U+1F41">>, <<"U+1F40", "U+0300", "U+1F42">>,
      <<"U+1F41", "U+0300", "U+1F43">>, <<"U+1F40", "U+0301", "U+1F44">>,
      <<"U+1F41", "U+0301", "U+1F45">>, <<"U+039F", "U+0313", "U+1F48">>,
      <<"U+039F", "U+0314", "U+1F49">>, <<"U+1F48", "U+0300", "U+1F4A">>,
      <<"U+1F49", "U+0300", "U+1F4B">>, <<"U+1F48", "U+0301", "U+1F4C">>,
      <<"U+1F49", "U+0301", "U+1F4D">>, <<"U+03C5", "U+0313", "U+1F50">>,
      <<"U+03C5", "U+0314", "U+1F51">>, <<"U+1F50", "U+0300", "U+1F52">>,
      <<"U+1F51", "U+0300", "U+1F53">>, <<"U+1F50", "U+0301", "U+1F54">>,
      <<"U+1F51", "U+0301", "U+1F55">>, <<"U+1F50", "U+0342", "U+1F56">>,
      <<"U+1F51", "U+0342", "U+1F57">>, <<"U+03A5", "U+0314", "U+1F59">>,
      <<"U+1F59", "U+0300", "U+1F5B">>, <<"U+1F59", "U+0301", "U+1F5D">>,
      <<"U+1F59", "U+0342", "U+1F5F">>, <<"U+03C9", "U+0313", "U+1F60">>,
      <<"U+03C9", "U+0314", "U+1F61">>, <<"U+1F60", "U+0300", "U+1F62">>,
      <<"U+1F61", "U+0300", "U+1F63">>, <<"U+1F60", "U+0301", "U+1F64">>,
      <<"U+1F61", "U+0301", "U+1F65">>, <<"U+1F60", "U+0342", "U+1F66">>,
      <<"U+1F61", "U+0342", "U+1F67">>, <<"U+03A9", "U+0313", "U+1F68">>,
      <<"U+03A9", "U+0314", "U+1F69">>, <<"U+1F68", "U+0300", "U+1F6A">>,
      <<"U+1F69", "U+0300", "U+1F6B">>, <<"U+1F68", "U+0301", "U+1F6C">>,
      <<"U+1F69", "U+0301", "U+1F6D">>, <<"U+1F68", "U+0342", "U+1F6E">>,
      <<"U+1F69", "U+0342", "U+1F6F">>, <<"U+03B1", "U+0300", "U+1F70">>,
      <<"U+03B5", "U+0300", "U+1F72">>, <<"U+03B7", "U+0300", "U+1F74">>,
      <<"U+03B9", "U+0300", "U+1F76">>, <<"U+03BF", "U+0300", "U+1F78">>,
      <<"U+03C5", "U+0300", "U+1F7A">>, <<"U+03C9", "U+0300", "U+1F7C">>,
      <<"U+1F00", "U+0345", "U+1F80">>, <<"U+1F01", "U+0345", "U+1F81">>,
      <<"U+1F02", "U+0345", "U+1F82">>, <<"U+1F03", "U+0345", "U+1F83">>,
      <<"U+1F04", "U+0345", "U+1F84">>, <<"U+1F05", "U+0345", "U+1F85">>,
      <<"U+1F06", "U+0345", "U+1F86">>, <<"U+1F07", "U+0345", "U+1F87">>,
      <<"U+1F08", "U+0345", "U+1F88">>, <<"U+1F09", "U+0345", "U+1F89">>,
      <<"U+1F0A", "U+0345", "U+1F8A">>, <<"U+1F0B", "U+0345", "U+1F8B">>,
      <<"U+1F0C", "U+0345", "U+1F8C">>, <<"U+1F0D", "U+0345", "U+1F8D">>,
      <<"U+1F0E", "U+0345", "U+1F8E">>, <<"U+1F0F", "U+0345", "U+1F8F">>,
      <<"U+1F20", "U+0345", "U+1F90">>, <<"U+1F21", "U+0345", "U+1F91">>,
      <<"U+1F22", "U+0345", "U+1F92">>, <<"U+1F23", "U+0345", "U+1F93">>,
      <<"U+1F24", "U+0345", "U+1F94">>, <<"U+1F25", "U+0345", "U+1F95">>,
      <<"U+1F26", "U+0345", "U+1F96">>, <<"U+1F27", "U+0345", "U+1F97">>,
      <<"U+1F28", "U+0345", "U+1F98">>, <<"U+1F29", "U+0345", "U+1F99">>,
      <<"U+1F2A", "U+0345", "U+1F9A">>, <<"U+1F2B", "U+0345", "U+1F9B">>,
      <<"U+1F2C", "U+0345", "U+1F9C">>, <<"U+1F2D", "U+0345", "U+1F9D">>,
      <<"U+1F2E", "U+0345", "U+1F9E">>, <<"U+1F2F", "U+0345", "U+1F9F">>,
      <<"U+1F60", "U+0345", "U+1FA0">>, <<"U+1F61", "U+0345", "U+1FA1">>,
      <<"U+1F62", "U+0345", "U+1FA2">>, <<"U+1F63", "U+0345", "U+1FA3">>,
      <<"U+1F64", "U+0345", "U+1FA4">>, <<"U+1F65", "U+0345", "U+1FA5">>,
      <<"U+1F66", "U+0345", "U+1FA6">>, <<"U+1F67", "U+0345", "U+1FA7">>,
      <<"U+1F68", "U+0345", "U+1FA8">>, <<"U+1F69", "U+0345", "U+1FA9">>,
      <<"U+1F6A", "U+0345", "U+1FAA">>, <<"U+1F6B", "U+0345", "U+1FAB">>,
      <<"U+1F6C", "U+0345", "U+1FAC">>, <<"U+1F6D", "U+0345", "U+1FAD">>,
      <<"U+1F6E", "U+0345", "U+1FAE">>, <<"U+1F6F", "U+0345", "U+1FAF">>,
      <<"U+03B1", "U+0306", "U+1FB0">>, <<"U+03B1", "U+0304", "U+1FB1">>,
      <<"U+1F70", "U+0345", "U+1FB2">>, <<"U+03B1", "U+0345", "U+1FB3">>,
      <<"U+03AC", "U+0345", "U+1FB4">>, <<"U+03B1", "U+0342", "U+1FB6">>,
      <<"U+1FB6", "U+0345", "U+1FB7">>, <<"U+0391", "U+0306", "U+1FB8">>,
      <<"U+0391", "U+0304", "U+1FB9">>, <<"U+0391", "U+0300", "U+1FBA">>,
      <<"U+0391", "U+0345", "U+1FBC">>, <<"U+1F74", "U+0345", "U+1FC2">>,
      <<"U+03B7", "U+0345", "U+1FC3">>, <<"U+03AE", "U+0345", "U+1FC4">>,
      <<"U+03B7", "U+0342", "U+1FC6">>, <<"U+1FC6", "U+0345", "U+1FC7">>,
      <<"U+0395", "U+0300", "U+1FC8">>, <<"U+0397", "U+0300", "U+1FCA">>,
      <<"U+0397", "U+0345", "U+1FCC">>, <<"U+03B9", "U+0306", "U+1FD0">>,
      <<"U+03B9", "U+0304", "U+1FD1">>, <<"U+03CA", "U+0300", "U+1FD2">>,
      <<"U+03B9", "U+0342", "U+1FD6">>, <<"U+03CA", "U+0342", "U+1FD7">>,
      <<"U+0399", "U+0306", "U+1FD8">>, <<"U+0399", "U+0304", "U+1FD9">>,
      <<"U+0399", "U+0300", "U+1FDA">>, <<"U+03C5", "U+0306", "U+1FE0">>,
      <<"U+03C5", "U+0304", "U+1FE1">>, <<"U+03CB", "U+0300", "U+1FE2">>,
      <<"U+03C1", "U+0313", "U+1FE4">>, <<"U+03C1", "U+0314", "U+1FE5">>,
      <<"U+03C5", "U+0342", "U+1FE6">>, <<"U+03CB", "U+0342", "U+1FE7">>,
      <<"U+03A5", "U+0306", "U+1FE8">>, <<"U+03A5", "U+0304", "U+1FE9">>,
      <<"U+03A5", "U+0300", "U+1FEA">>, <<"U+03A1", "U+0314", "U+1FEC">>,
      <<"U+1F7C", "U+0345", "U+1FF2">>, <<"U+03C9", "U+0345", "U+1FF3">>,
      <<"U+03CE", "U+0345", "U+1FF4">>, <<"U+03C9", "U+0342", "U+1FF6">>,
      <<"U+1FF6", "U+0345", "U+1FF7">>, <<"U+039F", "U+0300", "U+1FF8">>,
      <<"U+03A9", "U+0300", "U+1FFA">>, <<"U+03A9", "U+0345", "U+1FFC">>,
      <<"<", "U+0338", "U+226E">>, <<">", "U+0338", "U+226F">> }

\* the canonical decompositions that are not recomposed
Decompositions ==
    { <<"U+0340", <<"U+0300">>>>, <<"U+0341", <<"U+0301">>>>,
      <<"U+0343", <<"U+0313">>>>, <<"U+0344", <<"U+0308", "U+0301">>>>,
      <<"U+0374", <<"U+02B9">>>>, <<"U+037E", <<";">>>>,
      <<"U+0387", <<"U+00B7">>>>, <<"U+1F71", <<"U+03AC">>>>,
      <<"U+1F73", <<"U+03AD">>>>, <<"U+1F75", <<"U+03AE">>>>,
      <<"U+1F77", <<"U+03AF">>>>, <<"U+1F79", <<"U+03CC">>>>,
      <<"U+1F7B", <<"U+03CD">>>>, <<"U+1F7D", <<"U+03CE">>>>,
      <<"U+1FBB", <<"U+0386">>>>, <<"U+1FBE", <<"U+03B9">>>>,
      <<"U+1FC9", <<"U+0388">>>>, <<"U+1FCB", <<"U+0389">>>>,
      <<"U+1FD3", <<"U+0390">>>>, <<"U+1FDB", <<"U+038A">>>>,
      <<"U+1FE3", <<"U+03B0">>>>, <<"U+1FEB", <<"U+038E">>>>,
      <<"U+1FF9", <<"U+038C">>>>, <<"U+1FFB", <<"U+038F">>>>,
      <<"U+2000", <<"U+2002">>>>, <<"U+2001", <<"U+2003">>>>,
      <<"U+2126", <<"U+03A9">>>>, <<"U+212A", <<"K">>>>,
      <<"U+212B", <<"U+00C5">>>> }

\* Canonical_Combining_Class: <<class, characters>>; every other character has class 0
Combining_Classes ==
    { <<1,
         { "U+0334", "U+0335", "U+0336", "U+0337", "U+0338" }>>,
      <<202,
         { "U+0321", "U+0322", "U+0327", "U+0328" }>>,
      <<216,
         { "U+031B" }>>,
      <<220,
         { "U+0316", "U+0317", "U+0318", "U+0319", "U+031C", "U+031D", "U+031E", "U+031F",
           "U+0320", "U+0323", "U+0324", "U+0325", "U+0326", "U+0329", "U+032A", "U+032B",
           "U+032C", "U+032D", "U+032E", "U+032F", "U+0330", "U+0331", "U+0332", "U+0333",
           "U+0339", "U+033A", "U+033B", "U+033C", "U+0347", "U+0348", "U+0349", "U+034D",
           "U+034E", "U+0353", "U+0354", "U+0355", "U+0356", "U+0359", "U+035A" }>>,
      <<230,
         { "U+0300", "U+0301", "U+0302", "U+0303", "U+0304", "U+0305", "U+0306", "U+0307",
           "U+0308", "U+0309", "U+030A", "U+030B", "U+030C", "U+030D", "U+030E", "U+030F",
           "U+0310", "U+0311", "U+0312", "U+0313", "U+0314", "U+033D", "U+033E", "U+033F",
           "U+0340", "U+0341", "U+0342", "U+0343", "U+0344", "U+0346", "U+034A", "U+034B",
           "U+034C", "U+0350", "U+0351", "U+0352", "U+0357", "U+035B", "U+0363", "U+0364",
           "U+0365", "U+0366", "U+0367", "U+0368", "U+0369", "U+036A", "U+036B", "U+036C",
           "U+036D", "U+036E", "U+036F" }>>,
      <<232,
         { "U+0315", "U+031A", "U+0358" }>>,
      <<233,
         { "U+035C", "U+035F", "U+0362" }>>,
      <<234,
         { "U+035D", "U+035E", "U+0360", "U+0361" }>>,
      <<240,
         { "U+0345" }>> }
Digits == <<"0", "1", "2", "3", "4", "5", "6", "7", "8", "9">>

Punctuation == {"#", "<", ">", "&", "(", ")", "[", "]", ",", ";", ":"}

\* char::is_whitespace: the White_Space property
White_Space ==
    { " ", "\t", "\n", "U+000B", "\f", "\r", "U+0085", "U+00A0",
      "U+1680", "U+2000", "U+2001", "U+2002", "U+2003", "U+2004", "U+2005",
      "U+2006", "U+2007", "U+2008", "U+2009", "U+200A", "U+2028", "U+2029",
      "U+202F", "U+205F", "U+3000" }

Range(s) == {s[i] : i \in 1..Len(s)}

AsciiLetters == Range(<<"A", "B", "C", "D", "E", "F", "G", "H", "I", "J", "K", "L", "M", "N", "O", "P", "Q", "R", "S", "T", "U", "V", "W", "X", "Y", "Z", "a", "b", "c", "d", "e", "f", "g", "h", "i", "j", "k", "l", "m", "n", "o", "p", "q", "r", "s", "t", "u", "v", "w", "x", "y", "z">>)

Ascii ==
    AsciiLetters \cup Range(Digits) \cup {"_"} \cup Punctuation
        \cup {" ", "\t", "\n", "U+000B", "\f", "\r"}

TwoBytes == Letters2 \cup Marks2 \cup Others2
ThreeBytes == Letters3 \cup Marks3 \cup Others3

Alphabet == Ascii \cup TwoBytes \cup ThreeBytes

\* a character outside Alphabet has no data
NoData(c) == CHOOSE d \in {} : d = c

\* char::len_utf8
len_utf8(c) ==
    IF c \in Ascii THEN 1
    ELSE IF c \in TwoBytes THEN 2
    ELSE IF c \in ThreeBytes THEN 3
    ELSE NoData(c)

XID_Start(c) ==
    IF c \in Ascii THEN c \in AsciiLetters
    ELSE IF c \in Alphabet THEN c \in Letters2 \cup Letters3
    ELSE NoData(c)

XID_Continue(c) ==
    IF c \in Ascii THEN c \in AsciiLetters \cup Range(Digits) \cup {"_"}
    ELSE IF c \in Alphabet THEN c \in Letters2 \cup Letters3 \cup Marks2 \cup Marks3
    ELSE NoData(c)

Cased(c) ==
    IF c \in Ascii THEN c \in AsciiLetters
    ELSE IF c \in Alphabet
    THEN c \in ((Letters2 \cup Letters3) \ Uncased_Letters) \cup Cased_Marks
    ELSE NoData(c)

Case_Ignorable(c) ==
    IF c \in Ascii THEN c = ":"
    ELSE IF c \in Alphabet THEN c \in Case_Ignorable_NonAscii
    ELSE NoData(c)

\* Canonical_Combining_Class
ccc(c) ==
    IF c \in Ascii THEN 0
    ELSE IF c \in Alphabet
    THEN IF \E k \in Combining_Classes : c \in k[2]
         THEN (CHOOSE k \in Combining_Classes : c \in k[2])[1]
         ELSE 0
    ELSE NoData(c)

RECURSIVE decompose(_)
\* the full canonical decomposition of a character
decompose(c) ==
    IF c \in Ascii THEN <<c>>
    ELSE IF c \notin Alphabet THEN NoData(c)
    ELSE IF \E t \in Compositions : t[3] = c
    THEN LET t == CHOOSE t \in Compositions : t[3] = c
         IN decompose(t[1]) \o decompose(t[2])
    ELSE IF \E t \in Decompositions : t[1] = c
    THEN LET d == (CHOOSE t \in Decompositions : t[1] = c)[2]
         IN IF Len(d) = 1 THEN decompose(d[1]) ELSE decompose(d[1]) \o decompose(d[2])
    ELSE <<c>>

\* the primary composite of a pair of characters, <<>> when there is none
compose(a, b) ==
    IF \E t \in Compositions : t[1] = a /\ t[2] = b
    THEN <<(CHOOSE t \in Compositions : t[1] = a /\ t[2] = b)[3]>>
    ELSE <<>>

\* char::to_lowercase: the characters of the lowercase mapping
LowerChar(c) ==
    IF c = "U+0130" THEN <<"i", "U+0307">>
    ELSE IF \E m \in Lowercase_Mapping : m[1] = c
    THEN <<(CHOOSE m \in Lowercase_Mapping : m[1] = c)[2]>>
    ELSE IF c \in Alphabet THEN <<c>>
    ELSE NoData(c)

RECURSIVE concat(_)
\* the texts of a sequence written one after the other
concat(ts) == IF ts = <<>> THEN <<>> ELSE Head(ts) \o concat(Tail(ts))

RECURSIVE case_ignorable_then_cased(_)
case_ignorable_then_cased(chars) ==
    IF chars = <<>> THEN FALSE
    ELSE IF Case_Ignorable(Head(chars))
         THEN case_ignorable_then_cased(Tail(chars))
    ELSE Cased(Head(chars))

rev(s) == [i \in 1..Len(s) |-> s[Len(s) + 1 - i]]

\* the lowercase of the capital sigma at position i: final sigma at the end
\* of a word, small sigma elsewhere
map_uppercase_sigma(from, i) ==
    IF /\ case_ignorable_then_cased(rev(SubSeq(from, 1, i - 1)))
       /\ ~case_ignorable_then_cased(SubSeq(from, i + 1, Len(from)))
    THEN "U+03C2"
    ELSE "U+03C3"

\* str::to_lowercase
to_lowercase(s) ==
    concat([i \in 1..Len(s) |->
                IF s[i] = "U+03A3" THEN <<map_uppercase_sigma(s, i)>>
                ELSE LowerChar(s[i])])

RECURSIVE canonical_order(_)
\* the canonical ordering: the marks of a run in the order of their classes
canonical_order(s) ==
    LET out == {i \in 1..(Len(s) - 1) : ccc(s[i]) > ccc(s[i + 1]) /\ ccc(s[i + 1]) > 0}
    IN IF out = {} THEN s
       ELSE LET i == CHOOSE i \in out : \A j \in out : i <= j
            IN canonical_order([s EXCEPT ![i] = s[i + 1], ![i + 1] = s[i]])

\* the canonical decomposition of a text
nfd(s) == canonical_order(concat([i \in 1..Len(s) |-> decompose(s[i])]))

NoClass == 0 - 1

RECURSIVE recompose(_, _, _, _, _)
\* the canonical composition: composee is the last starter (<<>> for none),
\* buffer the marks after it, last the class of the last of them
recompose(out, composee, buffer, last, rest) ==
    IF rest = <<>> THEN out \o composee \o buffer
    ELSE LET ch == Head(rest)
             cl == ccc(ch)
         IN IF composee = <<>>
            THEN IF cl = 0 THEN recompose(out, <<ch>>, <<>>, NoClass, Tail(rest))
                 ELSE recompose(Append(out, ch), <<>>, <<>>, NoClass, Tail(rest))
            ELSE IF (last = NoClass \/ last < cl) /\ compose(composee[1], ch) # <<>>
            THEN recompose(out, compose(composee[1], ch), buffer, last, Tail(rest))
            ELSE IF cl = 0
            THEN recompose(out \o composee \o buffer, <<ch>>, <<>>, NoClass, Tail(rest))
            ELSE recompose(out, composee, Append(buffer, ch), cl, Tail(rest))

\* Normalization Form C
nfc(s) == recompose(<<>>, <<>>, <<>>, NoClass, nfd(s))

RECURSIVE str_len(_)
\* str::len: the length in bytes of the UTF-8 encoding
str_len(s) == IF s = <<>> THEN 0 ELSE len_utf8(Head(s)) + str_len(Tail(s))

\* the byte offset of the character at position i (from 1)
byte_offset(s, i) == str_len(SubSeq(s, 1, i - 1))

\* str::find(&str): the byte offset of the first match
find(hay, pat) ==
    LET hits == {i \in 1..(Len(hay) - Len(pat) + 1) :
                    SubSeq(hay, i, i + Len(pat) - 1) = pat}
    IN IF hits = {} THEN NoPos
       ELSE byte_offset(hay, CHOOSE i \in hits : \A j \in hits : i <= j)

\* str::rfind(char): the byte offset of the last match
rfind(hay, ch) ==
    LET hits == {i \in 1..Len(hay) : hay[i] = ch}
    IN IF hits = {} THEN NoPos
       ELSE byte_offset(hay, CHOOSE i \in hits : \A j \in hits : i >= j)

\* str::is_char_boundary
is_char_boundary(s, a) == \E i \in 0..Len(s) : str_len(SubSeq(s, 1, i)) = a

\* the number of characters before the byte offset a
chars_before(s, a) == CHOOSE i \in 0..Len(s) : str_len(SubSeq(s, 1, i)) = a

\* &s[a..b]: panics unless a <= b and both are character boundaries of s
slice_ok(s, a, b) == a <= b /\ is_char_boundary(s, a) /\ is_char_boundary(s, b)
slice(s, a, b) == SubSeq(s, chars_before(s, a) + 1, chars_before(s, b))

\* str::split_whitespace().collect::<String>()
split_whitespace_collect(s) == SelectSeq(s, LAMBDA c : c \notin White_Space)

\* the tokens of a type around which the printers differ
OpenDelimiters == {<<"(">>, <<"[">>}
CloseDelimiters == {<<")">>, <<"]">>}
Separators == {<<",">>, <<";">>}
Puncts == {<<"<">>, <<">">>, <<"&">>, <<":", ":">>, <<",">>, <<";">>}

\* The text of TokenStream::to_string() depends on the printer of the build.
\* The fallback printer of proc-macro2 writes one blank between two tokens
\* of a group: "Option < (u8 , u8) >", "fn ()".  The compiler's printer
\* leaves out the blank between fn and its parenthesis and the blank before
\* a comma or semicolon that follows a non-punctuation token,
\* "Option < (u8, u8) >", "Vec < u8 > , u8", "fn()", and fills lines of
\* Margin columns.
Printers == {"proc_macro2", "rustc"}

\* space_between of the printer: is a blank written between tokens a and b
blank_between(a, b) ==
    /\ a \notin OpenDelimiters
    /\ b \notin CloseDelimiters
    /\ printer = "rustc" =>
          /\ b \in Separators => a \in Puncts
          /\ ~(a = <<"f", "n">> /\ b = <<"(">>)

RECURSIVE fallback_print(_)
\* the fallback printer: one blank wherever there is one
fallback_print(toks) ==
    IF toks = <<>> THEN <<>>
    ELSE IF Len(toks) = 1 THEN Head(toks)
    ELSE Head(toks)
         \o (IF blank_between(toks[1], toks[2]) THEN <<" ">> ELSE <<>>)
         \o fallback_print(Tail(toks))

\* the line width of the compiler's printer
Margin == 78

\* the breaks of the compiler's printer: the gap after token i is one when
\* a blank belongs there
is_break(toks, i) == i < Len(toks) /\ blank_between(toks[i], toks[i + 1])

\* the number of groups open after token i
depth(toks, i) ==
    Cardinality({j \in 1..i : toks[j] \in OpenDelimiters})
        - Cardinality({j \in 1..i : toks[j] \in CloseDelimiters})

\* the first break after token i that lies no deeper than d, or the end
next_break(toks, i, d) ==
    LET later == {j \in (i + 1)..(Len(toks) - 1) :
                    is_break(toks, j) /\ depth(toks, j) <= d}
    IN IF later = {} THEN Len(toks)
       ELSE CHOOSE j \in later : \A k \in later : j <= k

RECURSIVE width(_, _, _)
\* the columns of tokens i..j written on one line
width(toks, i, j) ==
    IF i > j THEN 0
    ELSE str_len(toks[i])
         + (IF i < j /\ is_break(toks, i) THEN 1 ELSE 0)
         + width(toks, i + 1, j)

\* the size of the break after token i: the blank and what follows it up
\* to the next break of its group or of an enclosing one
break_size(toks, i) == 1 + width(toks, i + 1, next_break(toks, i, depth(toks, i)))

\* the size of the group opened by token i: what follows up to the first
\* break after the group
begin_size(toks, i) == width(toks, i + 1, next_break(toks, i, depth(toks, i) - 1))

RECURSIVE rustc_print(_, _, _, _)
\* the compiler's printer from token i on: space is what is left of the
\* line, frames tells of each open group whether it is broken
rustc_print(toks, i, space, frames) ==
    LET t == toks[i]
        closed == IF t \in CloseDelimiters
                  THEN SubSeq(frames, 1, Len(frames) - 1) ELSE frames
        left == space - str_len(t)
        opened == IF t \in OpenDelimiters
                  THEN Append(closed, begin_size(toks, i) > left) ELSE closed
        fits == \/ opened # <<>> /\ ~opened[Len(opened)]
                \/ break_size(toks, i) <= left
    IN IF i = Len(toks) THEN t
       ELSE IF ~is_break(toks, i) THEN t \o rustc_print(toks, i + 1, left, opened)
       ELSE IF fits THEN t \o <<" ">> \o rustc_print(toks, i + 1, left - 1, opened)
       ELSE t \o <<"\n">> \o rustc_print(toks, i + 1, Margin, opened)

\* TokenStream::to_string()
token_stream_to_string(toks) ==
    IF toks = <<>> THEN <<>>
    ELSE IF printer = "rustc" THEN rustc_print(toks, 1, Margin, <<>>)
    ELSE fallback_print(toks)

----------------------------------------------------------------------------
(* syn::Type *)

NoIdent == <<>>     \* Option<Ident>::None; an identifier is never empty

PathSegment(ident, args) == [ident |-> ident, args |-> args]
TypePath(segs) == [k |-> "Path", segs |-> segs, elems |-> <<>>]
TypeReference(elem) == [k |-> "Reference", segs |-> <<>>, elems |-> <<elem>>]
TypeTuple(elems) == [k |-> "Tuple", segs |-> <<>>, elems |-> elems]
TypeSlice(elem) == [k |-> "Slice", segs |-> <<>>, elems |-> <<elem>>]
TypeArray(elem, len) == [k |-> "Array", segs |-> <<>>, elems |-> <<elem>>, len |-> len]
TypeBareFn == [k |-> "BareFn", segs |-> <<>>, elems |-> <<>>]

RECURSIVE type_tokens(_), list_tokens(_), segments_tokens(_)
\* ToTokens for a type: its token sequence, each token a Text
type_tokens(t) ==
    IF t.k = "Path" THEN segments_tokens(t.segs)
    ELSE IF t.k = "Reference" THEN <<<<"&">>>> \o type_tokens(t.elems[1])
    ELSE IF t.k = "Tuple"
         THEN <<<<"(">>>> \o list_tokens(t.elems)
              \o (IF Len(t.elems) = 1 THEN <<<<",">>>> ELSE <<>>) \o <<<<")">>>>
    ELSE IF t.k = "Slice" THEN <<<<"[">>>> \o type_tokens(t.elems[1]) \o <<<<"]">>>>
    ELSE IF t.k = "Array"
         THEN <<<<"[">>>> \o type_tokens(t.elems[1]) \o <<<<";">>, t.len, <<"]">>>>
    ELSE <<<<"f", "n">>, <<"(">>, <<")">>>>

list_tokens(ts) ==
    IF ts = <<>> THEN <<>>
    ELSE type_tokens(Head(ts))
         \o (IF Len(ts) > 1 THEN <<<<",">>>> \o list_tokens(Tail(ts)) ELSE <<>>)

segments_tokens(ss) ==
    IF ss = <<>> THEN <<>>
    ELSE <<Head(ss).ident>>
         \o (IF Head(ss).args # <<>>
             THEN <<<<"<">>>> \o list_tokens(Head(ss).args) \o <<<<">">>>>
             ELSE <<>>)
         \o (IF Len(ss) > 1 THEN <<<<":", ":">>>> \o segments_tokens(Tail(ss)) ELSE <<>>)

----------------------------------------------------------------------------
(* crate::parser: the directive list of a field and its two queries *)

Customize(kind) == [kind |-> kind, lit |-> <<>>]
FixedValue(lit) == [kind |-> "FixedValue", lit |-> lit]

has_customize(customizes, kind) == \E c \in customizes : c.kind = kind

\* Option<literal>: <<>> for None, <<lit>> for Some(lit)
fixed_value(customizes) ==
    IF has_customize(customizes, "FixedValue")
    THEN <<(CHOOSE c \in customizes : c.kind = "FixedValue").lit>>
    ELSE <<>>

----------------------------------------------------------------------------
(* gen.rs *)

TRAIT_NAME == <<"T", "e", "s", "t", "D", "a", "t", "a", "P", "r", "o", "v", "i", "d", "e", "r">>

\* the "+ 7" that skips "Option<"
OptionPrefixLen == 7

\* .take(10)
TakeLen == 10

\* IdentFragment for Ident: the r# of a raw identifier is dropped
unraw(ident) ==
    IF Len(ident) >= 2 /\ SubSeq(ident, 1, 2) = <<"r", "#">>
    THEN SubSeq(ident, 3, Len(ident))
    ELSE ident

\* is_ident_start, is_ident_continue
IdentStart(c) == c = "_" \/ XID_Start(c)
IdentContinue(c) == XID_Continue(c)

\* ident_ok: a start character followed by continue characters
is_ident(text) ==
    /\ text # <<>>
    /\ IdentStart(text[1])
    /\ \A i \in 2..Len(text) : IdentContinue(text[i])

\* the panics of Ident::new and Ident::new_raw, without the quoted text
EmptyIdentPanic == "Ident is not allowed to be empty; use Option<Ident>"
NumberIdentPanic == "Ident cannot be a number; use Literal instead"
InvalidIdentPanic == "is not a valid Ident"
InvalidIdentifierPanic == "is not a valid identifier"
RawIdentPanic == "cannot be a raw identifier"

IdentPanics ==
    {EmptyIdentPanic, NumberIdentPanic, InvalidIdentPanic, InvalidIdentifierPanic,
     RawIdentPanic}

\* the text that Ident::new stores: inside the compiler its Normalization
\* Form C, outside the text as it is
ident_text(text) ==
    IF printer = "rustc" /\ \E i \in 1..Len(text) : text[i] \notin Ascii
    THEN nfc(text)
    ELSE text

\* the validation of Ident::new: <<>> when the text is accepted, else the
\* message of the panic.  Outside the compiler proc-macro2 validates the
\* text itself; inside, the compiler does.
validate_ident(text, stored) ==
    IF printer # "rustc" /\ text = <<>> THEN <<EmptyIdentPanic>>
    ELSE IF printer # "rustc" /\ \A i \in 1..Len(text) : text[i] \in Range(Digits)
    THEN <<NumberIdentPanic>>
    ELSE IF is_ident(stored) THEN <<>>
    ELSE IF printer = "rustc" THEN <<InvalidIdentifierPanic>>
    ELSE <<InvalidIdentPanic>>

\* the Ident of a validated text, or the panic of its validation
new_checked(validation, stored) ==
    IF validation = <<>> THEN [ok |-> TRUE, ident |-> stored]
    ELSE [ok |-> FALSE, panic |-> validation[1]]

\* Ident::new_checked on a text and the text to store
new_stored(text, stored) == new_checked(validate_ident(text, stored), stored)

\* Ident::new
ident_new(text) == new_stored(text, ident_text(text))

\* the names that cannot be raw identifiers
CannotBeRaw == {<<"_">>, <<"s", "u", "p", "e", "r">>, <<"s", "e", "l", "f">>, <<"S", "e", "l", "f">>, <<"c", "r", "a", "t", "e">>}

\* Ident::new_raw
\* the raw identifier of an Ident, or the panic for a name that cannot be raw
raw(new) ==
    IF ~new.ok THEN new
    ELSE IF new.ident \in CannotBeRaw THEN [ok |-> FALSE, panic |-> RawIdentPanic]
    ELSE [ok |-> TRUE, ident |-> <<"r", "#">> \o new.ident]

\* Ident::new_raw
ident_new_raw(text) == raw(ident_new(text))

\* the end of format_ident!: the formatted text becomes an Ident, a raw one
\* when it starts with r#
format_ident(text) ==
    IF Len(text) >= 2 /\ SubSeq(text, 1, 2) = <<"r", "#">>
    THEN ident_new_raw(SubSeq(text, 3, Len(text)))
    ELSE ident_new(text)

trait_name(name) == format_ident(TRAIT_NAME \o <<"F", "o", "r">> \o unraw(name))

\* the two panics of gen.rs that end the expansion of the derive macro
NotSupportedPanic == "This type is not supported"
UnwrapPanic == "called Option::unwrap() on a None value"
SlicePanic == "slice index out of range or not on a char boundary"

Unsupported == [ok |-> FALSE, panic |-> NotSupportedPanic]

extract_type_path(tp) ==
    LET full_type == split_whitespace_collect(token_stream_to_string(type_tokens(tp)))
        to_string == tp.segs[Len(tp.segs)].ident
    IN [ok |-> TRUE, full_type |-> full_type, to_string |-> to_string]

\* variant: only one level of reference is looked through
extract_type_one_level(t) ==
    IF t.k = "Path" THEN extract_type_path(t)
    ELSE IF t.k = "Reference" /\ t.elems[1].k = "Path" THEN extract_type_path(t.elems[1])
    ELSE Unsupported

RECURSIVE extract_type(_)
extract_type(t) ==
    IF t.k = "Path" THEN extract_type_path(t)
    ELSE IF t.k = "Reference" THEN extract_type(t.elems[1])
    ELSE Unsupported

\* variant: Default is looked at before the fixed value
generate_value_default_first(ty_str, customizes) ==
    LET fv == fixed_value(customizes)
    IN IF has_customize(customizes, "Default") THEN [k |-> "Default::default()"]
       ELSE IF (ty_str = <<"S", "t", "r", "i", "n", "g">> \/ ty_str = <<"s", "t", "r">>) /\ fv # <<>>
       THEN IF ty_str = <<"S", "t", "r", "i", "n", "g">>
            THEN [k |-> "stringify!.to_string()", lit |-> fv[1]]
            ELSE [k |-> "stringify!", lit |-> fv[1]]
       ELSE IF fv # <<>> THEN [k |-> "literal", lit |-> fv[1]]
       ELSE IF ty_str = <<"S", "t", "r", "i", "n", "g">>
            THEN [k |-> "rng.sample_iter(Alphanumeric).take.map(char::from).collect()",
                  take |-> TakeLen]
       ELSE IF ty_str = <<"U", "u", "i", "d">> THEN [k |-> "uuid::Uuid::new_v4()"]
       ELSE [k |-> "rng.gen()"]

generate_value(ty_str, customizes) ==
    LET fv == fixed_value(customizes)
    IN IF (ty_str = <<"S", "t", "r", "i", "n", "g">> \/ ty_str = <<"s", "t", "r">>) /\ fv # <<>>
       THEN IF ty_str = <<"S", "t", "r", "i", "n", "g">>
            THEN [k |-> "stringify!.to_string()", lit |-> fv[1]]
            ELSE [k |-> "stringify!", lit |-> fv[1]]
       ELSE IF fv # <<>> THEN [k |-> "literal", lit |-> fv[1]]
       ELSE IF has_customize(customizes, "Default") THEN [k |-> "Default::default()"]
       ELSE IF ty_str = <<"S", "t", "r", "i", "n", "g">>
            THEN [k |-> "rng.sample_iter(Alphanumeric).take.map(char::from).collect()",
                  take |-> TakeLen]
       ELSE IF ty_str = <<"U", "u", "i", "d">> THEN [k |-> "uuid::Uuid::new_v4()"]
       ELSE [k |-> "rng.gen()"]

\* the name given by format_ident! in add_to_trait_methods
generate_ty_name(field_ident, ty_str) ==
    format_ident(IF field_ident = NoIdent
                 THEN <<"g", "e", "n", "e", "r", "a", "t", "e", "_", "r", "a", "n", "d", "o", "m", "_">> \o to_lowercase(ty_str)
                 ELSE <<"g", "e", "n", "e", "r", "a", "t", "e", "_">> \o unraw(field_ident))

\* variant: the map is replaced by the one new entry
insert_fresh(map, key, value) == [x \in {key} |-> value]

\* HashMap::insert: the value of an existing key is replaced
insert(map, key, value) ==
    [x \in (DOMAIN map) \cup {key} |-> IF x = key THEN value ELSE map[x]]

\* the method of the trait tn named name for the type ty: its signature is
\* stored under the name, and the fragment is the call of it
trait_method(type_ident, tn, name, ty, map) ==
    IF ~tn.ok THEN [ok |-> FALSE, panic |-> tn.panic]
    ELSE IF ~name.ok THEN [ok |-> FALSE, panic |-> name.panic]
    ELSE [ok |-> TRUE,
          trait_methods |-> insert(map, name.ident,
                                   [fn |-> name.ident, arg |-> "rng: &mut R",
                                    ret |-> ty]),
          tokens |-> [k |-> "qualified_call", self_ty |-> type_ident,
                      trait |-> tn.ident, method |-> name.ident, arg |-> "rng"]]

add_to_trait_methods(type_ident, field_ident, ty, ty_str, map) ==
    trait_method(type_ident, trait_name(type_ident),
                 generate_ty_name(field_ident, ty_str), ty, map)

\* the text between "Option<" and the last '>'
option_inner(full_type) ==
    LET p == find(full_type, <<"O", "p", "t", "i", "o", "n", "<">>)
        q == rfind(full_type, ">")
    IN IF p = NoPos \/ q = NoPos THEN [ok |-> FALSE, panic |-> UnwrapPanic]
       ELSE IF ~slice_ok(full_type, p + OptionPrefixLen, q)
       THEN [ok |-> FALSE, panic |-> SlicePanic]
       ELSE [ok |-> TRUE, inner |-> slice(full_type, p + OptionPrefixLen, q)]

\* variant: AlwaysSome is looked at before AlwaysNone
option_value_some_first(customizes, ts_value) ==
    IF has_customize(customizes, "AlwaysSome")
    THEN [k |-> "Some", inner |-> ts_value]
    ELSE IF has_customize(customizes, "AlwaysNone") THEN [k |-> "None"]
    ELSE [k |-> "if rng.gen()",
          yes |-> [k |-> "Some", inner |-> ts_value],
          no |-> [k |-> "None"]]

option_value(customizes, ts_value) ==
    IF has_customize(customizes, "AlwaysNone") THEN [k |-> "None"]
    ELSE IF has_customize(customizes, "AlwaysSome")
         THEN [k |-> "Some", inner |-> ts_value]
    ELSE [k |-> "if rng.gen()",
          yes |-> [k |-> "Some", inner |-> ts_value],
          no |-> [k |-> "None"]]

vec_value(customizes, ts_value) ==
    IF has_customize(customizes, "Empty") THEN [k |-> "vec!", elems |-> <<>>]
    ELSE [k |-> "vec!", elems |-> <<ts_value>>]

PanicFragment == [k |-> "panic!", msg |-> "This property can not be generated"]

\* variant: Custom is looked at before Panic
value_arm_custom_first(customizes, to_string) ==
    IF has_customize(customizes, "Custom") THEN "Custom"
    ELSE IF has_customize(customizes, "Panic") THEN "Panic"
    ELSE IF to_string = <<"O", "p", "t", "i", "o", "n">> THEN "Option"
    ELSE IF to_string = <<"V", "e", "c">> THEN "Vec"
    ELSE "Scalar"

\* which arm of the if-chain of generated_values is taken
value_arm(customizes, to_string) ==
    IF has_customize(customizes, "Panic") THEN "Panic"
    ELSE IF has_customize(customizes, "Custom") THEN "Custom"
    ELSE IF to_string = <<"O", "p", "t", "i", "o", "n">> THEN "Option"
    ELSE IF to_string = <<"V", "e", "c">> THEN "Vec"
    ELSE "Scalar"

generated_values(type_ident, field_ident, field, map) ==
    LET customizes == field.customizes
        ty == field.ty
        prefix == field_ident
        et == extract_type(ty)
    IN IF ~et.ok THEN [ok |-> FALSE, panic |-> et.panic]
       ELSE
       LET full_type == et.full_type
           to_string == et.to_string
           ts_value == generate_value(to_string, customizes)
           arm == value_arm(customizes, to_string)
           Emit(value, m) ==
               [ok |-> TRUE, tokens |-> [prefix |-> prefix, value |-> value],
                trait_methods |-> m, full_type |-> full_type, to_string |-> to_string,
                ts_value |-> ts_value]
       IN IF arm = "Panic" THEN Emit(PanicFragment, map)
          ELSE IF arm = "Custom"
               THEN LET r == add_to_trait_methods(type_ident, field_ident, ty, to_string, map)
                    IN IF ~r.ok THEN [ok |-> FALSE, panic |-> r.panic]
                       ELSE Emit(r.tokens, r.trait_methods)
          ELSE IF arm = "Option"
               THEN LET oi == option_inner(full_type)
                    IN IF ~oi.ok THEN [ok |-> FALSE, panic |-> oi.panic]
                       ELSE Emit(option_value(customizes,
                                              generate_value(oi.inner, customizes)), map)
          ELSE IF arm = "Vec" THEN Emit(vec_value(customizes, ts_value), map)
          ELSE Emit(ts_value, map)

----------------------------------------------------------------------------
(* The inputs *)

TypeIdent == <<"F", "o", "o">>

Plain(name) == TypePath(<<PathSegment(name, <<>>)>>)
Generic(name, args) == TypePath(<<PathSegment(name, args)>>)
StdString ==
    TypePath(<<PathSegment(<<"s", "t", "d">>, <<>>), PathSegment(<<"s", "t", "r", "i", "n", "g">>, <<>>),
               PathSegment(<<"S", "t", "r", "i", "n", "g">>, <<>>)>>)
UuidUuid == TypePath(<<PathSegment(<<"u", "u", "i", "d">>, <<>>), PathSegment(<<"U", "u", "i", "d">>, <<>>)>>)
U8 == Plain(<<"u", "8">>)

\* a type whose text is longer than a line of the compiler's printer
LongMap ==
    TypePath(<<PathSegment(<<"s", "t", "d">>, <<>>), PathSegment(<<"c", "o", "l", "l", "e", "c", "t", "i", "o", "n", "s">>, <<>>),
               PathSegment(<<"H", "a", "s", "h", "M", "a", "p">>,
                           <<StdString,
                             TypePath(<<PathSegment(<<"s", "t", "d">>, <<>>),
                                        PathSegment(<<"v", "e", "c">>, <<>>),
                                        PathSegment(<<"V", "e", "c">>, <<StdString>>)>>)>>)>>)

AllTypes ==
    << Plain(<<"S", "t", "r", "i", "n", "g">>), Plain(<<"s", "t", "r">>), Plain(<<"U", "u", "i", "d">>), U8, Plain(<<"C", "o", "u", "n", "t">>),
       Plain(<<"X">>), StdString, UuidUuid,
       Generic(<<"O", "p", "t", "i", "o", "n">>, <<Plain(<<"S", "t", "r", "i", "n", "g">>)>>),
       Generic(<<"O", "p", "t", "i", "o", "n">>, <<Plain(<<"U", "u", "i", "d">>)>>),
       Generic(<<"O", "p", "t", "i", "o", "n">>, <<U8>>),
       Generic(<<"O", "p", "t", "i", "o", "n">>, <<Generic(<<"V", "e", "c">>, <<U8>>)>>),
       Generic(<<"O", "p", "t", "i", "o", "n">>, <<StdString>>),
       Generic(<<"O", "p", "t", "i", "o", "n">>, <<UuidUuid>>),
       Plain(<<"O", "p", "t", "i", "o", "n">>),
       Generic(<<"O", "p", "t", "i", "o", "n">>, <<U8, U8>>),
       Generic(<<"V", "e", "c">>, <<Plain(<<"S", "t", "r", "i", "n", "g">>)>>),
       Generic(<<"V", "e", "c">>, <<Plain(<<"U", "u", "i", "d">>)>>),
       Generic(<<"V", "e", "c">>, <<U8>>),
       Plain(<<"V", "e", "c">>),
       Generic(<<"V", "e", "c">>, <<U8, U8>>),
       TypeReference(Plain(<<"S", "t", "r", "i", "n", "g">>)),
       TypeReference(TypeReference(Plain(<<"S", "t", "r", "i", "n", "g">>))),
       TypeReference(Plain(<<"s", "t", "r">>)),
       TypeReference(Generic(<<"O", "p", "t", "i", "o", "n">>, <<Plain(<<"S", "t", "r", "i", "n", "g">>)>>)),
       TypeTuple(<<U8, U8>>),
       TypeSlice(U8),
       TypeArray(U8, <<"2">>),
       TypeBareFn,
       TypeReference(TypeTuple(<<U8, U8>>)),
       Plain(<<"r", "#", "T", "y", "p", "e">>),
       Plain(<<"U+00C9", "c", "o", "l", "e">>),
       Plain(<<"U+0391", "U+03A3">>),
       Plain(<<"U+0130", "x">>),
       Plain(<<"H", "U+0331">>),
       LongMap,
       Generic(<<"O", "p", "t", "i", "o", "n">>, <<LongMap>>),
       Generic(<<"O", "p", "t", "i", "o", "n">>, <<Plain(<<"U+00C9", "c", "o", "l", "e">>)>>),
       Generic(<<"O", "p", "t", "i", "o", "n">>, <<TypeTuple(<<U8, U8>>)>>),
       Generic(<<"O", "p", "t", "i", "o", "n">>, <<TypeTuple(<<U8>>)>>),
       Generic(<<"O", "p", "t", "i", "o", "n">>, <<TypeArray(U8, <<"3">>)>>) >>

Kinds == {"Panic", "Custom", "AlwaysNone", "AlwaysSome", "Empty", "Default"}

\* every directive list: any of the six flags, with or without a fixed value
AllCustomizes ==
    {{Customize(kd) : kd \in ks} \cup fx :
        ks \in SUBSET Kinds, fx \in {{}, {FixedValue(<<"4", "2">>)}}}

AllFields ==
    {[ident |-> id, ty |-> AllTypes[i], customizes |-> cs] :
        id \in {NoIdent, <<"n", "a", "m", "e">>, <<"r", "#", "t", "y", "p", "e">>, <<"U+540D">>}, i \in 1..Len(AllTypes), cs \in AllCustomizes}

\* the fields of the multi-field runs: colliding and distinct method names
MaxFields == 2

\* H with a macron below has no precomposed capital, its lowercase has
SomeTypes ==
    << Generic(<<"V", "e", "c">>, <<U8>>), Generic(<<"V", "e", "c">>, <<Plain(<<"S", "t", "r", "i", "n", "g">>)>>),
       Plain(<<"X">>), U8, Plain(<<"H", "U+0331">>), Plain(<<"U+1E96">>) >>

SomeCustomizes ==
    {{}, {Customize("Custom")}, {Customize("Panic")},
     {Customize("Custom"), Customize("Panic")}}

SomeFields ==
    {[ident |-> id, ty |-> SomeTypes[i], customizes |-> cs] :
        id \in {NoIdent, <<"r", "a", "n", "d", "o", "m", "_", "x">>, <<"r", "#", "t", "y", "p", "e">>}, i \in 1..Len(SomeTypes),
        cs \in SomeCustomizes}

RECURSIVE Lists(_, _)
Lists(S, n) ==
    IF n = 0 THEN {<<>>}
    ELSE Lists(S, n - 1) \cup {Append(l, f) : l \in Lists(S, n - 1), f \in S}

----------------------------------------------------------------------------
(* The state machine *)

DataKinds == {"Struct", "Enum", "Union"}

UnionPanic == "Unions are currently not supported"

\* the fields of a struct are all named or all positional, those of a union
\* all named; the variants of an enum mix both
WellFormed(d, fs) ==
    \/ d = "Enum"
    \/ \A i \in 1..Len(fs) : fs[i].ident # NoIdent
    \/ d = "Struct" /\ \A i \in 1..Len(fs) : fs[i].ident = NoIdent

Start ==
    /\ data \in DataKinds
    /\ printer \in Printers
    /\ WellFormed(data, fields)
    /\ values = <<>>
    /\ extracted = <<>>
    /\ ts_values = <<>>
    /\ trait_methods = <<>>
    /\ status = "input"

\* one owning type with up to MaxFields fields
Init == fields \in Lists(SomeFields, MaxFields) /\ Start

\* one owning type with a single field of any type and directive list
InitField == fields \in {<<f>> : f \in AllFields} /\ Start

\* the match on input.data: a union ends the expansion, a struct or an enum
\* has its fields generated
transform ==
    /\ status = "input"
    /\ status' = IF data = "Union" THEN UnionPanic ELSE "running"
    /\ UNCHANGED <<data, printer, fields, values, extracted, ts_values, trait_methods>>

\* the outcome r of generated_values on the next field: its fragment is
\* collected, or its panic ends the expansion
Collect(r) ==
    IF r.ok
    THEN /\ values' = Append(values, r.tokens)
         /\ extracted' = Append(extracted, <<r.full_type, r.to_string>>)
         /\ ts_values' = Append(ts_values, r.ts_value)
         /\ trait_methods' = r.trait_methods
         /\ UNCHANGED <<data, printer, fields, status>>
    ELSE /\ status' = r.panic
         /\ UNCHANGED <<data, printer, fields, values, extracted, ts_values, trait_methods>>

\* one step of the iterator over the positional fields
generated_values_for_unnamed_fields ==
    /\ status = "running"
    /\ Len(values) < Len(fields)
    /\ fields[Len(values) + 1].ident = NoIdent
    /\ Collect(generated_values(TypeIdent, NoIdent, fields[Len(values) + 1],
                                trait_methods))

\* one step of the iterator over the named fields
generated_values_for_named_fields ==
    /\ status = "running"
    /\ Len(values) < Len(fields)
    /\ fields[Len(values) + 1].ident # NoIdent
    /\ Collect(generated_values(TypeIdent, fields[Len(values) + 1].ident,
                                fields[Len(values) + 1], trait_methods))

Next ==
    \/ transform
    \/ generated_values_for_unnamed_fields
    \/ generated_values_for_named_fields

Spec == Init /\ [][Next]_vars

SpecField == InitField /\ [][Next]_vars

----------------------------------------------------------------------------
(* Vocabulary of the properties *)

Processed == 1..Len(values)

\* the field whose processing panicked
Culprit == fields[Len(values) + 1]

\* a panic raised while a field was processed
FieldPanicked == status \in {NotSupportedPanic, UnwrapPanic, SlicePanic} \cup IdentPanics

Has(f, kind) == \E c \in f.customizes : c.kind = kind

Delegated(f) == Has(f, "Custom") /\ ~Has(f, "Panic")

Automatic(f) == ~Has(f, "Custom") /\ ~Has(f, "Panic")

RECURSIVE StripReferences(_)
StripReferences(t) ==
    IF t.k = "Reference" THEN StripReferences(t.elems[1]) ELSE t

\* a named-path type behind any number of references
Classifiable(t) == StripReferences(t).k = "Path"

\* a named-path type, or a reference to a named-path type
AtMostOneReference(t) ==
    t.k = "Path" \/ (t.k = "Reference" /\ t.elems[1].k = "Path")

LastSegment(t) ==
    LET p == StripReferences(t) IN p.segs[Len(p.segs)]

HeadName(t) == LastSegment(t).ident

TypeArguments(t) == LastSegment(t).args

Emitted(f, value) == [prefix |-> f.ident, value |-> value]

RECURSIVE Flatten(_)
\* the tokens written one after the other
Flatten(toks) == IF toks = <<>> THEN <<>> ELSE Head(toks) \o Flatten(Tail(toks))

\* the name of a named field, without the r# of a raw identifier
FieldName(f) ==
    IF Len(f.ident) >= 2 /\ f.ident[1] = "r" /\ f.ident[2] = "#"
    THEN SubSeq(f.ident, 3, Len(f.ident))
    ELSE f.ident

ExpectedMethod(f) ==
    IF f.ident = NoIdent
    THEN <<"g", "e", "n", "e", "r", "a", "t", "e", "_", "r", "a", "n", "d", "o", "m", "_">> \o to_lowercase(HeadName(f.ty))
    ELSE <<"g", "e", "n", "e", "r", "a", "t", "e", "_">> \o FieldName(f)

ExpectedCall(f) ==
    [k |-> "qualified_call", self_ty |-> TypeIdent,
     trait |-> <<"T", "e", "s", "t", "D", "a", "t", "a", "P", "r", "o", "v", "i", "d", "e", "r", "F", "o", "r", "F", "o", "o">>, method |-> ExpectedMethod(f), arg |-> "rng"]

RandomText ==
    [k |-> "rng.sample_iter(Alphanumeric).take.map(char::from).collect()", take |-> 10]

ScalarKinds ==
    {"stringify!.to_string()", "stringify!", "literal", "Default::default()",
     "rng.sample_iter(Alphanumeric).take.map(char::from).collect()",
     "uuid::Uuid::new_v4()", "rng.gen()"}

Literal(f) == (CHOOSE c \in f.customizes : c.kind = "FixedValue").lit

\* the table of the Scalar Strategy; textual4 is the set of heads of rule 4
ScalarTable(head, f, textual4) ==
    IF Has(f, "FixedValue") /\ head = <<"S", "t", "r", "i", "n", "g">>
    THEN [k |-> "stringify!.to_string()", lit |-> Literal(f)]
    ELSE IF Has(f, "FixedValue") /\ head = <<"s", "t", "r">>
    THEN [k |-> "stringify!", lit |-> Literal(f)]
    ELSE IF Has(f, "FixedValue") THEN [k |-> "literal", lit |-> Literal(f)]
    ELSE IF Has(f, "Default") THEN [k |-> "Default::default()"]
    ELSE IF head \in textual4 THEN RandomText
    ELSE IF head = <<"U", "u", "i", "d">> THEN [k |-> "uuid::Uuid::new_v4()"]
    ELSE [k |-> "rng.gen()"]

\* the value fragment that a field of type t with the directives of f resolves to
ResolvedOk(t, f) ==
    generated_values(TypeIdent, NoIdent, [f EXCEPT !.ident = NoIdent, !.ty = t],
                     trait_methods).ok

Resolved(t, f) ==
    generated_values(TypeIdent, NoIdent, [f EXCEPT !.ident = NoIdent, !.ty = t],
                     trait_methods).tokens.value

TypeOK ==
    /\ status \in {"input", "running", UnionPanic, NotSupportedPanic, UnwrapPanic,
                   SlicePanic} \cup IdentPanics
    /\ status \in {"input", UnionPanic} => values = <<>>
    /\ Len(values) <= Len(fields)
    /\ Len(extracted) = Len(values)
    /\ Len(ts_values) = Len(values)
    /\ FieldPanicked => Len(values) < Len(fields)

----------------------------------------------------------------------------
(* C1 *)

\* C1 as stated: every field that carries Panic, whatever its declared type
\* and other directives, yields the panic! fragment (behind its name when it
\* is named) and no other fragment or outcome.
C1_PanicWhateverType ==
    /\ \A i \in Processed :
          Has(fields[i], "Panic") => values[i] = Emitted(fields[i], PanicFragment)
    /\ FieldPanicked => ~Has(Culprit, "Panic")

\* C1 amended: every field that carries Panic and whose declared type is a
\* named-path type behind any number of references yields the panic! fragment
\* (behind its name when it is named), whatever its other directives, and no
\* other fragment or outcome; a Panic field of any other type form ends the
\* generation with the unsupported-type panic.
C1_PanicOnClassifiableType ==
    /\ \A i \in Processed :
          Has(fields[i], "Panic") => values[i] = Emitted(fields[i], PanicFragment)
    /\ (FieldPanicked /\ Has(Culprit, "Panic")) =>
          (~Classifiable(Culprit.ty) /\ status = NotSupportedPanic)

C1_Witness ==
    \E i \in Processed :
        /\ Has(fields[i], "Panic") /\ Has(fields[i], "Custom")
        /\ Has(fields[i], "FixedValue") /\ Has(fields[i], "AlwaysNone")
        /\ HeadName(fields[i].ty) = <<"O", "p", "t", "i", "o", "n">>
        /\ fields[i].ident = <<"n", "a", "m", "e">>
        /\ values[i].value.k = "panic!"
        /\ trait_methods = <<>>

----------------------------------------------------------------------------
(* C2 *)

\* C2: every field with Custom and without Panic, whatever its type shape
\* and other directives, is emitted as the call
\* <Foo as TestDataProviderForFoo>::<method>(rng), where <method> is
\* generate_<field name> for a named field and
\* generate_random_<lowercased type head> for a positional one, and from then
\* on the capability mapping has an entry under <method>; the delegation of
\* a classified field never ends the generation.
C2_CustomDelegates ==
    /\ \A i \in Processed :
          Delegated(fields[i]) =>
              /\ values[i] = Emitted(fields[i], ExpectedCall(fields[i]))
              /\ ExpectedMethod(fields[i]) \in DOMAIN trait_methods
    /\ (FieldPanicked /\ Delegated(Culprit)) => ~Classifiable(Culprit.ty)

----------------------------------------------------------------------------
(* C3 *)

\* C3: a field with head Option and neither Panic nor Custom is emitted as
\* None when AlwaysNone is present (whatever else is present), else as
\* Some(inner) when AlwaysSome is present, else as a choice on rng.gen()
\* between Some(inner) and None, inner being a scalar fragment.
C3_OptionArms ==
    \A i \in Processed :
        (Automatic(fields[i]) /\ HeadName(fields[i].ty) = <<"O", "p", "t", "i", "o", "n">>) =>
            LET v == values[i].value
            IN /\ values[i].prefix = fields[i].ident
               /\ IF Has(fields[i], "AlwaysNone") THEN v = [k |-> "None"]
                  ELSE IF Has(fields[i], "AlwaysSome")
                  THEN /\ v.k = "Some"
                       /\ DOMAIN v = {"k", "inner"}
                       /\ v.inner.k \in ScalarKinds
                  ELSE /\ v.k = "if rng.gen()"
                       /\ DOMAIN v = {"k", "yes", "no"}
                       /\ v.yes.k = "Some"
                       /\ DOMAIN v.yes = {"k", "inner"}
                       /\ v.yes.inner.k \in ScalarKinds
                       /\ v.no = [k |-> "None"]

C3_Witness ==
    \E i \in Processed :
        /\ Automatic(fields[i])
        /\ fields[i].ty = Generic(<<"O", "p", "t", "i", "o", "n">>, <<Plain(<<"S", "t", "r", "i", "n", "g">>)>>)
        /\ Has(fields[i], "AlwaysNone") /\ Has(fields[i], "AlwaysSome")
        /\ Has(fields[i], "FixedValue") /\ Has(fields[i], "Default")
        /\ values[i].value = [k |-> "None"]

----------------------------------------------------------------------------
(* C4 *)

\* C4: a field with head Vec and neither Panic nor Custom is emitted as
\* vec![] when Empty is present, and otherwise as a vec! of exactly one
\* element, which is the fragment that the inner type T resolves to under
\* the same directive list.
C4_VecElementIsResolvedInner ==
    \A i \in Processed :
        (/\ Automatic(fields[i])
         /\ HeadName(fields[i].ty) = <<"V", "e", "c">>
         /\ Len(TypeArguments(fields[i].ty)) = 1
         /\ ResolvedOk(TypeArguments(fields[i].ty)[1], fields[i])) =>
            IF Has(fields[i], "Empty")
            THEN values[i].value = [k |-> "vec!", elems |-> <<>>]
            ELSE values[i].value =
                    [k |-> "vec!",
                     elems |-> <<Resolved(TypeArguments(fields[i].ty)[1], fields[i])>>]

----------------------------------------------------------------------------
(* C5 *)

\* C5 as stated: generate_value follows the table of the Scalar Strategy,
\* with both String and str under rule 4 (random text).
C5_StrUnderRule4 ==
    \A i \in Processed :
        ts_values[i] =
            ScalarTable(HeadName(fields[i].ty), fields[i], {<<"S", "t", "r", "i", "n", "g">>, <<"s", "t", "r">>})

\* C5 amended: generate_value returns the fragment of the first matching
\* rule: (1) FixedValue with head String -> the literal as owned text, with
\* head str -> as borrowed text; (2) FixedValue otherwise -> the literal;
\* (3) Default without FixedValue -> Default::default(); (4) head String
\* with neither -> the 10-character random text; (5) head Uuid ->
\* uuid::Uuid::new_v4(); (6) anything else, head str included -> rng.gen().
\* A field that takes the scalar arm is emitted as exactly that fragment.
C5_ScalarTable ==
    \A i \in Processed :
        /\ ts_values[i] = ScalarTable(HeadName(fields[i].ty), fields[i], {<<"S", "t", "r", "i", "n", "g">>})
        /\ (/\ Automatic(fields[i])
            /\ HeadName(fields[i].ty) \notin {<<"O", "p", "t", "i", "o", "n">>, <<"V", "e", "c">>}) =>
                values[i] = Emitted(fields[i], ts_values[i])

C5_Witness ==
    \E i \in Processed :
        /\ fields[i].ty = TypeReference(Plain(<<"s", "t", "r">>))
        /\ fields[i].customizes = {}
        /\ values[i].value = [k |-> "rng.gen()"]

----------------------------------------------------------------------------
(* C6 *)

\* the identifier that format_ident! makes of the derived method name of a
\* field: the text itself outside the compiler, its Normalization Form C
\* inside
ExpectedIdent(f) == ident_text(ExpectedMethod(f))

\* C6 as stated: the keys of the capability mapping are exactly the derived
\* method names, generate_<field name> or
\* generate_random_<lowercased type head>, of the processed fields with
\* Custom and without Panic.
C6_KeysAreDerivedTexts ==
    DOMAIN trait_methods =
        {ExpectedMethod(fields[i]) : i \in {j \in Processed : Delegated(fields[j])}}

C6_KeysExact ==
    DOMAIN trait_methods =
        {ExpectedIdent(fields[i]) : i \in {j \in Processed : Delegated(fields[j])}}

C6_OthersLeaveMapping ==
    (/\ status = "running"
     /\ Len(values) < Len(fields)
     /\ ~Delegated(fields[Len(values) + 1])) => trait_methods' = trait_methods

\* C6 amended: at every point of the processing of the fields of one owning
\* type the keys of the capability mapping are exactly the identifiers made
\* of the derived method names of the processed fields with Custom and
\* without Panic, an identifier being the derived text itself outside the
\* compiler and its Normalization Form C inside (one key for fields whose
\* names make the same identifier), and processing a field without Custom,
\* or with Panic, leaves the mapping as it was.
C6_MappingKeys == [] C6_KeysExact /\ [][C6_OthersLeaveMapping]_vars

C6_Witness ==
    /\ printer = "rustc"
    /\ Len(values) = 2
    /\ Delegated(fields[1]) /\ Delegated(fields[2])
    /\ fields[1].ident = NoIdent /\ fields[2].ident = NoIdent
    /\ fields[1].ty = Plain(<<"H", "U+0331">>)
    /\ fields[2].ty = Plain(<<"U+1E96">>)
    /\ ExpectedMethod(fields[1]) = <<"g", "e", "n", "e", "r", "a", "t", "e", "_", "r", "a", "n", "d", "o", "m", "_", "h", "U+0331">>
    /\ DOMAIN trait_methods = {<<"g", "e", "n", "e", "r", "a", "t", "e", "_", "r", "a", "n", "d", "o", "m", "_", "U+1E96">>}

----------------------------------------------------------------------------
(* C7 *)

\* C7 as stated: only a named-path type, or a reference one level deep to a
\* named-path type, is classified; a reference to a reference is not.
C7_OneLevelOnly ==
    \A i \in Processed : AtMostOneReference(fields[i].ty)

C7_ClassifiedExactly ==
    /\ \A i \in Processed :
          /\ Classifiable(fields[i].ty)
          /\ extracted[i][1] = Flatten(type_tokens(StripReferences(fields[i].ty)))
          /\ \A j \in 1..Len(extracted[i][1]) : extracted[i][1][j] \notin White_Space
          /\ extracted[i][2] = HeadName(fields[i].ty)
    /\ status = NotSupportedPanic => ~Classifiable(Culprit.ty)
    /\ status \in {UnwrapPanic, SlicePanic} \cup IdentPanics => Classifiable(Culprit.ty)

C7_UnsupportedAborts ==
    (/\ status = "running"
     /\ Len(values) < Len(fields)
     /\ ~Classifiable(fields[Len(values) + 1].ty)) =>
        (status' = NotSupportedPanic /\ values' = values)

\* C7 amended: extract_type succeeds exactly for a named-path type behind
\* any number of references (none, one, or a reference to a reference ...),
\* returning the whitespace-free rendered text of the path and the
\* identifier of its last segment; every other type form (tuple, array,
\* slice, function pointer, a reference that ends in one of these) ends the
\* generation with the unsupported-type panic and no fragment, also when the
\* field carries Panic or Custom.
C7_Classification == [] C7_ClassifiedExactly /\ [][C7_UnsupportedAborts]_vars

C7_Witness ==
    /\ Len(values) = 1
    /\ fields[1].ty = TypeReference(TypeReference(Plain(<<"S", "t", "r", "i", "n", "g">>)))
    /\ extracted[1] = <<<<"S", "t", "r", "i", "n", "g">>, <<"S", "t", "r", "i", "n", "g">>>>

----------------------------------------------------------------------------
(* C8 *)

\* the inner fragment of an emitted Option value, <<>> when there is none
InnerOf(v) ==
    IF v.k = "Some" THEN <<v.inner>>
    ELSE IF v.k = "if rng.gen()" THEN <<v.yes.inner>>
    ELSE <<>>

\* C8: for an Option<T> field with neither Panic nor Custom, the fragment
\* inside Some(...) is the fragment that a field of type T resolves to under
\* the same directive list (a sequence fragment for Option<Vec<U>>, the same
\* strategy for a path-qualified T as for the bare type).
C8_OptionInnerIsResolvedInner ==
    \A i \in Processed :
        (/\ Automatic(fields[i])
         /\ HeadName(fields[i].ty) = <<"O", "p", "t", "i", "o", "n">>
         /\ Len(TypeArguments(fields[i].ty)) = 1
         /\ ResolvedOk(TypeArguments(fields[i].ty)[1], fields[i])
         /\ InnerOf(values[i].value) # <<>>) =>
            InnerOf(values[i].value) =
                <<Resolved(TypeArguments(fields[i].ty)[1], fields[i])>>

----------------------------------------------------------------------------
(* C9 *)

\* C9: once every field of the owning type is processed, the capability
\* mapping holds for every delegated field, under its derived method name, a
\* signature that returns that field's own declared type, also when several
\* delegated fields derive the same method name.
C9_SignatureReturnsFieldType ==
    (status = "running" /\ Len(values) = Len(fields)) =>
        \A i \in Processed :
            Delegated(fields[i]) =>
                /\ ExpectedMethod(fields[i]) \in DOMAIN trait_methods
                /\ trait_methods[ExpectedMethod(fields[i])].ret = fields[i].ty

----------------------------------------------------------------------------
(* C10 *)

\* C10: for a field with head Option or Vec and neither Panic nor Custom, a
\* fragment is emitted only when the type carries exactly one type argument;
\* with none, or with two or more, the generation aborts with no fragment.
C10_ExactlyOneArgument ==
    \A i \in Processed :
        (/\ Automatic(fields[i])
         /\ HeadName(fields[i].ty) \in {<<"O", "p", "t", "i", "o", "n">>, <<"V", "e", "c">>}) =>
            Len(TypeArguments(fields[i].ty)) = 1
====
